---- MODULE Spec2Model ----
(***************************************************************************)
(* Group description store of galene (group/description.go) and the        *)
(* administrative API that drives it (webserver/api.go).                   *)
(*                                                                         *)
(* A group name "a/b" is the sequence <<"a", "b">>; the path <<"a", "b">>  *)
(* of the file system stands for the file <Directory>/a/b.json.  A file    *)
(* carries its JSON document, its size and its modification time; the      *)
(* modification time is the value of the file-system clock at the last     *)
(* write, and the clock has a finite granularity (Tick).                   *)
(***************************************************************************)
EXTENDS Integers, Sequences, FiniteSets, TLC

\* ---------------------------------------------------------------- bounds
MaxClock == 1
MaxCalls == 2

Procs == {"p1", "p2"}

\* the group names "g" and "g/s"
Names == {<<"g">>, <<"g", "s">>}

\* the malformed names "", "/", "/g", "g/", "./g", "g/.", "../g", "g/..",
\* "g/./s" and "g/../s", and the names "." and ".."
InvalidNames ==
    { <<>>, <<"", "">>, <<"", "g">>, <<"g", "">>, <<".", "g">>, <<"g", ".">>,
      <<"..", "g">>, <<"g", "..">>, <<"g", ".", "s">>, <<"g", "..", "s">>,
      <<".">>, <<"..">> }

\* the name "g/s/t", whose parent has a parent
DeepNames == {<<"g", "s", "t">>}

\* ------------------------------------------------------- nilable values
Nil == [nil |-> TRUE]
Some(v) == [nil |-> FALSE, v |-> v]

isEmpty(o) == o = Nil \/ DOMAIN o.v = {}

\* --------------------------------------------------------- Description
\* Permissions{name: n}
namedPermissions(n) == [name |-> n, permissions |-> Nil]

\* Permissions{permissions: a}
listPermissions(a) == [name |-> "", permissions |-> Some(a)]

\* the zero value of Permissions, of a user without a permissions member
noPermissions == [name |-> "", permissions |-> Nil]

permissionsMap ==
    [op |-> <<"op", "present", "token">>, present |-> <<"present">>,
     observe |-> <<>>, admin |-> <<"admin">>]

\* the loop of Permissions.Permissions that looks for capability c
hasPermission(perms, c) == \E i \in DOMAIN perms : perms[i] = c

\* Permissions that adds token to every role that can present
PermissionsTokenAlways(p, desc) ==
    IF p.name = "" THEN p.permissions
    ELSE LET perms == permissionsMap[p.name]
             perms1 == IF /\ desc # Nil /\ desc.v.AllowRecording
                          /\ hasPermission(perms, "op")
                          /\ ~hasPermission(perms, "record")
                       THEN <<"record">> \o perms ELSE perms
             perms2 == IF /\ hasPermission(perms, "present")
                          /\ ~hasPermission(perms, "token")
                       THEN <<"token">> \o perms1 ELSE perms1
         IN Some(perms2)

\* Permissions in which the token is added only when recording is not
\* allowed
PermissionsEitherOr(p, desc) ==
    IF p.name = "" THEN p.permissions
    ELSE LET perms == permissionsMap[p.name]
         IN IF desc # Nil /\ desc.v.AllowRecording
            THEN Some(IF /\ hasPermission(perms, "op")
                         /\ ~hasPermission(perms, "record")
                      THEN <<"record">> \o perms ELSE perms)
            ELSE Some(IF /\ desc # Nil /\ desc.v.UnrestrictedTokens
                         /\ hasPermission(perms, "present")
                         /\ ~hasPermission(perms, "token")
                      THEN <<"token">> \o perms ELSE perms)

\* p.Permissions(desc); desc may be nil
Permissions(p, desc) ==
    IF p.name = "" THEN p.permissions
    ELSE LET perms == permissionsMap[p.name]
             op == hasPermission(perms, "op")
             present == hasPermission(perms, "present")
             token == hasPermission(perms, "token")
             record == hasPermission(perms, "record")
             perms1 == IF desc # Nil /\ desc.v.AllowRecording /\ op /\ ~record
                       THEN <<"record">> \o perms ELSE perms
             perms2 == IF /\ desc # Nil /\ desc.v.UnrestrictedTokens
                          /\ present /\ ~token
                       THEN <<"token">> \o perms1 ELSE perms1
         IN Some(perms2)

\* Password: an opaque credential
plainPassword(k) == [Type |-> "plain", Key |-> k]

UserDescription(pw, perm) == [Password |-> pw, Permissions |-> perm]

\* ClientPattern of the obsolete op/presenter/other lists
ClientPattern(u, pw) == [Username |-> u, Password |-> pw]

\* the zero value of the Description struct
Description ==
    [FileName |-> <<>>, modTime |-> 0, fileSize |-> 0, isSubgroup |-> FALSE,
     DisplayName |-> "", Description |-> "", Public |-> FALSE,
     AllowRecording |-> FALSE, UnrestrictedTokens |-> FALSE,
     AutoSubgroups |-> FALSE,
     Users |-> Nil, FallbackUsers |-> Nil, AuthKeys |-> Nil,
     Op |-> Nil, Presenter |-> Nil, Other |-> Nil,
     AllowSubgroups |-> FALSE, AllowAnonymous |-> FALSE]

\* omitempty: an empty map or slice is left out of the document
omitEmpty(o) == IF isEmpty(o) THEN Nil ELSE o

\* MarshalJSON that writes the list of a named role, which has none
marshalPermissionsList(p) ==
    IF p.permissions = Nil THEN [kind |-> "null", v |-> <<>>]
    ELSE [kind |-> "array", v |-> p.permissions.v]

\* Permissions.MarshalJSON: the name of a named role, else the list, which
\* is written as null when it is nil
marshalPermissions(p) ==
    IF p.name # "" THEN [kind |-> "string", v |-> p.name]
    ELSE IF p.permissions = Nil THEN [kind |-> "null", v |-> <<>>]
    ELSE [kind |-> "array", v |-> p.permissions.v]

\* Permissions.UnmarshalJSON: an array of strings, as which null decodes
\* to the nil list, or else the name of a role of permissionsMap; a user
\* without the member keeps the zero value
unmarshalPermissions(j) ==
    CASE j.kind = "array" -> listPermissions(j.v)
      [] j.kind = "null" -> noPermissions
      [] j.kind = "absent" -> noPermissions
      [] j.kind = "string" /\ j.v \in DOMAIN permissionsMap ->
            namedPermissions(j.v)

\* a UserDescription as a JSON object and back; the password is opaque
marshalUser(u) ==
    [password |-> u.Password, permissions |-> marshalPermissions(u.Permissions)]

unmarshalUser(j) ==
    UserDescription(j.password, unmarshalPermissions(j.permissions))

\* the users of a map or of a slice, which may be nil, encoded and decoded
marshalUsers(o) ==
    IF o = Nil THEN Nil ELSE Some([k \in DOMAIN o.v |-> marshalUser(o.v[k])])

unmarshalUsers(o) ==
    IF o = Nil THEN Nil ELSE Some([k \in DOMAIN o.v |-> unmarshalUser(o.v[k])])

\* json.Encoder.Encode(desc): the fields tagged json:"-" are not written
encode(d) ==
    [DisplayName |-> d.DisplayName, Description |-> d.Description,
     Public |-> d.Public, AllowRecording |-> d.AllowRecording,
     UnrestrictedTokens |-> d.UnrestrictedTokens,
     AutoSubgroups |-> d.AutoSubgroups,
     Users |-> omitEmpty(marshalUsers(d.Users)),
     FallbackUsers |-> omitEmpty(marshalUsers(d.FallbackUsers)),
     AuthKeys |-> omitEmpty(d.AuthKeys),
     Op |-> omitEmpty(d.Op), Presenter |-> omitEmpty(d.Presenter),
     Other |-> omitEmpty(d.Other),
     AllowSubgroups |-> d.AllowSubgroups,
     AllowAnonymous |-> d.AllowAnonymous]

\* json.Decoder.Decode into a zero Description
decode(j) ==
    [Description EXCEPT
        !.DisplayName = j.DisplayName, !.Description = j.Description,
        !.Public = j.Public, !.AllowRecording = j.AllowRecording,
        !.UnrestrictedTokens = j.UnrestrictedTokens,
        !.AutoSubgroups = j.AutoSubgroups,
        !.Users = unmarshalUsers(j.Users),
        !.FallbackUsers = unmarshalUsers(j.FallbackUsers),
        !.AuthKeys = j.AuthKeys,
        !.Op = j.Op, !.Presenter = j.Presenter, !.Other = j.Other,
        !.AllowSubgroups = j.AllowSubgroups,
        !.AllowAnonymous = j.AllowAnonymous]

\* number of bytes of a JSON document: per present member the key, its
\* quotes and colon, the value and a separator
strMember(k, s) == IF s = "" THEN 0 ELSE k + 3 + Len(s) + 2 + 1
boolMember(k, b) == IF b THEN k + 3 + 4 + 1 ELSE 0
collMember(k, o) ==
    IF o = Nil THEN 0 ELSE k + 3 + 2 + 40 * Cardinality(DOMAIN o.v) + 1

jsonSize(j) ==
    3 + strMember(11, j.DisplayName) + strMember(11, j.Description)
      + boolMember(6, j.Public) + boolMember(15, j.AllowRecording)
      + boolMember(19, j.UnrestrictedTokens)
      + boolMember(14, j.AutoSubgroups)
      + collMember(5, j.Users) + collMember(14, j.FallbackUsers)
      + collMember(8, j.AuthKeys)
      + collMember(2, j.Op) + collMember(9, j.Presenter)
      + collMember(5, j.Other)
      + boolMember(15, j.AllowSubgroups) + boolMember(15, j.AllowAnonymous)

\* ---------------------------------------------------- schema migration
upgradePassword(pw) ==
    IF pw = Nil THEN [Type |-> "wildcard", Key |-> ""] ELSE pw.v

upgradeUser(u, p) ==
    UserDescription(upgradePassword(u.Password), namedPermissions(p))

\* the loop of upgradeUsers in which a later entry replaces an earlier one
RECURSIVE upgradeUsersLoopLastWins(_, _, _)
upgradeUsersLoopLastWins(desc, ps, p) ==
    IF ps = <<>> THEN desc
    ELSE LET u == Head(ps) IN
        IF u.Username = ""
        THEN upgradeUsersLoopLastWins(
                [desc EXCEPT !.FallbackUsers =
                    Some((IF desc.FallbackUsers = Nil THEN <<>>
                          ELSE desc.FallbackUsers.v) \o <<upgradeUser(u, p)>>)],
                Tail(ps), p)
        ELSE upgradeUsersLoopLastWins(
                [desc EXCEPT !.Users =
                    Some((u.Username :> upgradeUser(u, p)) @@ desc.Users.v)],
                Tail(ps), p)

RECURSIVE upgradeUsersLoop(_, _, _)
upgradeUsersLoop(desc, ps, p) ==
    IF ps = <<>> THEN desc
    ELSE LET u == Head(ps) IN
        IF u.Username = ""
        THEN upgradeUsersLoop(
                [desc EXCEPT !.FallbackUsers =
                    Some((IF desc.FallbackUsers = Nil THEN <<>>
                          ELSE desc.FallbackUsers.v) \o <<upgradeUser(u, p)>>)],
                Tail(ps), p)
        ELSE IF u.Username \in DOMAIN desc.Users.v
        THEN upgradeUsersLoop(desc, Tail(ps), p)
        ELSE upgradeUsersLoop(
                [desc EXCEPT !.Users =
                    Some(desc.Users.v @@ (u.Username :> upgradeUser(u, p)))],
                Tail(ps), p)

upgradeUsers(desc, ps, p) ==
    upgradeUsersLoop(
        IF desc.Users = Nil THEN [desc EXCEPT !.Users = Some(<<>>)] ELSE desc,
        ps, p)

\* upgradeDescription that leaves the obsolete lists in place
upgradeDescriptionKeepLists(desc) ==
    LET d1 == [desc EXCEPT !.AllowAnonymous = FALSE]
        d2 == IF d1.AllowSubgroups
              THEN [d1 EXCEPT !.AutoSubgroups = TRUE, !.AllowSubgroups = FALSE]
              ELSE d1
        d3 == IF d2.Op # Nil THEN upgradeUsers(d2, d2.Op.v, "op") ELSE d2
        d4 == IF d3.Presenter # Nil
              THEN upgradeUsers(d3, d3.Presenter.v, "present") ELSE d3
        d5 == IF d4.Other # Nil
              THEN upgradeUsers(d4, d4.Other.v, "observe") ELSE d4
    IN d5

upgradeDescription(desc) ==
    LET d1 == [desc EXCEPT !.AllowAnonymous = FALSE]
        d2 == IF d1.AllowSubgroups
              THEN [d1 EXCEPT !.AutoSubgroups = TRUE, !.AllowSubgroups = FALSE]
              ELSE d1
        d3 == IF d2.Op # Nil
              THEN [upgradeUsers(d2, d2.Op.v, "op") EXCEPT !.Op = Nil]
              ELSE d2
        d4 == IF d3.Presenter # Nil
              THEN [upgradeUsers(d3, d3.Presenter.v, "present")
                        EXCEPT !.Presenter = Nil]
              ELSE d3
        d5 == IF d4.Other # Nil
              THEN [upgradeUsers(d4, d4.Other.v, "observe")
                        EXCEPT !.Other = Nil]
              ELSE d4
    IN d5

\* ---------------------------------------------------------- file system
NoFile == [exists |-> FALSE]

\* a completely written file holding document j, last written at time t
File(j, t) ==
    [exists |-> TRUE, doc |-> j, size |-> jsonSize(j), mtime |-> t,
     complete |-> TRUE]

\* a file that was created and not yet written
EmptyFile(t) ==
    [exists |-> TRUE, doc |-> encode(Description), size |-> 0, mtime |-> t,
     complete |-> FALSE]

\* path.Dir(filename)
Dir(path) == SubSeq(path, 1, Len(path) - 1)

\* path.Clean of a rooted path: empty and "." segments are dropped, ".."
\* drops the segment before it, and nothing at the root
RECURSIVE cleanLoop(_, _)
cleanLoop(out, segs) ==
    IF segs = <<>> THEN out
    ELSE cleanLoop(IF Head(segs) \in {"", "."} THEN out
                   ELSE IF Head(segs) = ".." THEN Dir(out)
                   ELSE Append(out, Head(segs)),
                   Tail(segs))

Clean(name) == cleanLoop(<<>>, name)

\* filepath.Join(Directory, path.Clean("/"+name)+".json")
jsonPath(name) == Clean(name)

\* strings.TrimRight(name, "/")
RECURSIVE trimRight(_)
trimRight(name) ==
    IF name # <<>> /\ name[Len(name)] = "" THEN trimRight(Dir(name)) ELSE name

\* name, _ = path.Split(name); name = strings.TrimRight(name, "/")
parent(name) == trimRight(Dir(name))

\* a name and the names that getDescriptionFile goes through after it
RECURSIVE prefixes(_)
prefixes(name) ==
    IF name = <<>> THEN {} ELSE {name} \cup prefixes(parent(name))

GroupPaths ==
    {jsonPath(m) : m \in UNION {prefixes(n) :
                        n \in Names \cup InvalidNames \cup DeepNames}}
    \cup {jsonPath(n) : n \in InvalidNames}

\* the file name that os.CreateTemp(dir, name + "*.temp") makes for p
tempName(name, p) ==
    (IF name = <<>> THEN "" ELSE name[Len(name)]) \o p \o ".temp"

TempPaths ==
    {<<tempName(n, p)>> :
        n \in {m \in Names \cup InvalidNames : Len(m) <= 1}, p \in Procs}

Paths == GroupPaths \cup TempPaths

\* ----------------------------------------------------------------- tags
NoTag == <<>>

\* fmt.Sprintf("\"%v-%v\"", fileSize, modTime.UnixNano())
makeETag(fileSize, modTime) == <<fileSize, modTime>>

\* ----------------------------------------------------------- resolution
RECURSIVE getDescriptionFileLoop(_, _, _)
getDescriptionFileLoop(fs, name, isParent) ==
    IF name = <<>>
    THEN [err |-> "NotExist", fileName |-> <<>>, isParent |-> FALSE]
    ELSE IF fs[jsonPath(name)].exists
    THEN [err |-> "nil", fileName |-> jsonPath(name), isParent |-> isParent]
    ELSE getDescriptionFileLoop(fs, parent(name), TRUE)

getDescriptionFile(fs, name) == getDescriptionFileLoop(fs, name, FALSE)

\* readDescription from the Stat of the opened file on: f is the open file
parseDescription(f, fileName, isParent) ==
    IF ~f.complete THEN [err |-> "Decode"]
    ELSE LET desc == decode(f.doc) IN
        IF isParent /\ ~desc.AutoSubgroups THEN [err |-> "NotExist"]
        ELSE LET d1 == IF isParent
                       THEN [desc EXCEPT !.isSubgroup = TRUE,
                                         !.Public = FALSE,
                                         !.Description = ""]
                       ELSE desc
                 d2 == [d1 EXCEPT !.FileName = fileName,
                                  !.fileSize = f.size,
                                  !.modTime = f.mtime]
             IN [err |-> "nil", desc |-> upgradeDescription(d2)]

\* readDescription that goes on to the next ancestor when the file it
\* found does not allow subgroups
RECURSIVE readDescriptionAnyAncestor(_, _)
readDescriptionAnyAncestor(fs, name) ==
    LET r == getDescriptionFile(fs, name) IN
    IF r.err # "nil" THEN [err |-> r.err]
    ELSE IF r.isParent /\ ~decode(fs[r.fileName].doc).AutoSubgroups
    THEN readDescriptionAnyAncestor(fs, parent(r.fileName))
    ELSE parseDescription(fs[r.fileName], r.fileName, r.isParent)

readDescription(fs, name) ==
    LET r == getDescriptionFile(fs, name) IN
    IF r.err # "nil" THEN [err |-> r.err]
    ELSE parseDescription(fs[r.fileName], r.fileName, r.isParent)

\* descriptionUnchanged comparing the size only
descriptionUnchangedSizeOnly(fs, name, desc) ==
    LET r == getDescriptionFile(fs, name) IN
    /\ r.err = "nil"
    /\ r.fileName = desc.FileName
    /\ fs[r.fileName].size = desc.fileSize

descriptionUnchanged(fs, name, desc) ==
    LET r == getDescriptionFile(fs, name) IN
    /\ r.err = "nil"
    /\ r.fileName = desc.FileName
    /\ fs[r.fileName].size = desc.fileSize
    /\ fs[r.fileName].mtime = desc.modTime

\* the cache check without the call of descriptionUnchanged
cacheHitUnchecked(fs, groups, name) == groups[name] # Nil

\* Get(name): the description of the group of that name, if there is one
Get(groups, name) == IF name \in DOMAIN groups THEN groups[name] ELSE Nil

\* the cache check of GetDescription: g != nil && descriptionUnchanged
cacheHit(fs, groups, name) ==
    /\ Get(groups, name) # Nil
    /\ descriptionUnchanged(fs, name, Get(groups, name).v)

GetDescription(fs, groups, name) ==
    IF cacheHit(fs, groups, name)
    THEN [err |-> "nil", desc |-> Get(groups, name).v]
    ELSE readDescription(fs, name)

\* sanitise without the test of isSubgroup
sanitiseSubgroups(r) ==
    IF r.err # "nil" THEN [err |-> r.err]
    ELSE [err |-> "nil",
          desc |-> [r.desc EXCEPT !.Users = Nil, !.FallbackUsers = Nil,
                                  !.AuthKeys = Nil],
          etag |-> makeETag(r.desc.fileSize, r.desc.modTime)]

\* the part of GetSanitisedDescription after GetDescription returned r
sanitise(r) ==
    IF r.err # "nil" THEN [err |-> r.err]
    ELSE IF r.desc.isSubgroup THEN [err |-> "NotExist"]
    ELSE [err |-> "nil",
          desc |-> [r.desc EXCEPT !.Users = Nil, !.FallbackUsers = Nil,
                                  !.AuthKeys = Nil],
          etag |-> makeETag(r.desc.fileSize, r.desc.modTime)]

GetSanitisedDescription(fs, groups, name) ==
    sanitise(GetDescription(fs, groups, name))

\* GetUsers(group): the names of the users and the tag of the Description
GetUsers(fs, groups, name) ==
    LET r == GetDescription(fs, groups, name) IN
    IF r.err # "nil" THEN [err |-> r.err]
    ELSE [err |-> "nil",
          users |-> IF r.desc.Users = Nil THEN {} ELSE DOMAIN r.desc.Users.v,
          etag |-> makeETag(r.desc.fileSize, r.desc.modTime)]

\* GetSanitisedUser(group, username): the user without the password, and
\* the tag of the Description
GetSanitisedUser(fs, groups, name, username) ==
    LET r == GetDescription(fs, groups, name) IN
    IF r.err # "nil" THEN [err |-> r.err]
    ELSE IF r.desc.Users = Nil THEN [err |-> "NotExist"]
    ELSE IF username \notin DOMAIN r.desc.Users.v THEN [err |-> "NotExist"]
    ELSE [err |-> "nil",
          user |-> [r.desc.Users.v[username] EXCEPT
                        !.Password = [Type |-> "", Key |-> ""]],
          etag |-> makeETag(r.desc.fileSize, r.desc.modTime)]

GetDescriptionTag(fs, name) ==
    LET r == getDescriptionFile(fs, name) IN
    IF r.err # "nil" THEN [err |-> r.err]
    ELSE IF r.isParent THEN [err |-> "NotExist"]
    ELSE [err |-> "nil",
          etag |-> makeETag(fs[r.fileName].size, fs[r.fileName].mtime)]

\* ------------------------------------------------ UpdateDescription
\* the test of UpdateDescription with len(...) != 0 in the place of != nil
sanitisedUnlessEmpty(desc) ==
    isEmpty(desc.Users) /\ isEmpty(desc.FallbackUsers) /\ isEmpty(desc.AuthKeys)

sanitised(desc) ==
    desc.Users = Nil /\ desc.FallbackUsers = Nil /\ desc.AuthKeys = Nil

\* UpdateDescription from readDescription to the tag comparison and the
\* copy of the secret fields
updateCheck(fs, name, etag, desc) ==
    LET old == readDescription(fs, name)
        found == old.err = "nil"
        oldetag == IF found
                   THEN makeETag(old.desc.fileSize, old.desc.modTime)
                   ELSE NoTag
        filename == IF found THEN old.desc.FileName ELSE jsonPath(name)
        newdesc == IF found
                   THEN [desc EXCEPT !.Users = old.desc.Users,
                                     !.FallbackUsers = old.desc.FallbackUsers,
                                     !.AuthKeys = old.desc.AuthKeys]
                   ELSE desc
    IN IF ~found /\ old.err # "NotExist" THEN [err |-> old.err]
       ELSE IF oldetag # etag THEN [err |-> "TagMismatch"]
       ELSE [err |-> "nil", filename |-> filename, newdesc |-> newdesc,
             oldetag |-> oldetag]

\* the file is created at the target path itself
createInPlace(dir, name, p) ==
    IF Len(name) > 1 THEN [err |-> "PatternHasSeparator"]
    ELSE [err |-> "nil", path |-> dir \o <<name[Len(name)]>>]

\* os.CreateTemp(dir, name + "*.temp"): a pattern with a path separator
\* is refused
createTemp(dir, name, p) ==
    IF Len(name) > 1 THEN [err |-> "PatternHasSeparator"]
    ELSE [err |-> "nil", path |-> dir \o <<tempName(name, p)>>]

\* a removal that is left out
removeNothing(fs, path) == fs

\* os.Remove(path)
remove(fs, path) == [fs EXCEPT ![path] = NoFile]

\* os.Rename(from, to)
rename(fs, from, to) ==
    IF from = to THEN fs
    ELSE [fs EXCEPT ![to] = fs[from], ![from] = NoFile]

\* deleteCheck without the test of isParent
deleteCheckAnyFile(fs, name, etag) ==
    LET r == getDescriptionFile(fs, name) IN
    IF r.err # "nil" THEN [err |-> r.err]
    ELSE IF etag # makeETag(fs[r.fileName].size, fs[r.fileName].mtime)
    THEN [err |-> "TagMismatch"]
    ELSE [err |-> "nil", fileName |-> r.fileName]

\* DeleteDescription from the Stat to the tag comparison
deleteCheck(fs, name, etag) ==
    LET r == getDescriptionFile(fs, name) IN
    IF r.err # "nil" THEN [err |-> r.err]
    ELSE IF r.isParent THEN [err |-> "NotExist"]
    ELSE IF etag # makeETag(fs[r.fileName].size, fs[r.fileName].mtime)
    THEN [err |-> "TagMismatch"]
    ELSE [err |-> "nil", fileName |-> r.fileName]

\* a lock that excludes nobody
canLockAlways(m, p) == TRUE

\* groups.mu.Lock() can proceed
canLock(m, p) == m = "free"

\* ----------------------------------------------------------------- state
VARIABLES
    fs,       \* path -> file
    now,      \* the file-system clock
    mu,       \* groups.mu: "free" or the process holding it
    groups,   \* name -> the cached Description of the group, if any
    pc,       \* process -> position in its call
    call,     \* process -> operation and arguments
    loc,      \* process -> local variables of the call
    ret,      \* process -> result of the call
    ncalls,   \* number of calls made so far
    stale,    \* name -> tags superseded by a successful update (history)
    deleted,  \* name -> deleted and not created since (history)
    atLock    \* process -> the file system when it took groups.mu (history)

vars == <<fs, now, mu, groups, pc, call, loc, ret, ncalls, stale, deleted,
          atLock>>

NoCall == [op |-> "none"]
NoLoc == [k |-> "none"]
NoRet == [err |-> "none"]

\* ---------------------------------------------------------------- inputs
jch == UserDescription(plainPassword("topsecret"), namedPermissions("op"))
john == UserDescription(plainPassword("secret"), namedPermissions("present"))
wildcard == UserDescription([Type |-> "wildcard", Key |-> ""],
                            namedPermissions("observe"))

EmptyJSON == encode(Description)

\* {"auto-subgroups": true}
AutoJSON == [EmptyJSON EXCEPT !.AutoSubgroups = TRUE]

\* a public group with users, keys and automatic subgroups
RichAutoJSON ==
    [EmptyJSON EXCEPT !.DisplayName = "G", !.Description = "d",
                      !.Public = TRUE, !.AutoSubgroups = TRUE,
                      !.Users = marshalUsers(Some(("jch" :> jch))),
                      !.FallbackUsers = marshalUsers(Some(<<wildcard>>)),
                      !.AuthKeys = Some(<<"k1">>)]

\* the same without automatic subgroups
RichJSON == [RichAutoJSON EXCEPT !.AutoSubgroups = FALSE]

\* a group file of its own for g/s
SubJSON ==
    [EmptyJSON EXCEPT !.DisplayName = "S", !.Public = TRUE,
                      !.Users = marshalUsers(Some(("john" :> john)))]

\* a file in the obsolete format
LegacyJSON ==
    [EmptyJSON EXCEPT !.Description = "d", !.AllowSubgroups = TRUE,
                      !.AllowAnonymous = TRUE,
                      !.Op = Some(<<ClientPattern("jch",
                                        Some(plainPassword("topsecret")))>>),
                      !.Other = Some(<<ClientPattern("", Nil)>>)]

NoFiles == [path \in Paths |-> NoFile]

InitFiles ==
    { NoFiles,
      [NoFiles EXCEPT ![<<"g">>] = File(AutoJSON, 0)],
      [NoFiles EXCEPT ![<<"g">>] = File(RichAutoJSON, 0),
                      ![<<"g", "s">>] = File(SubJSON, 0)],
      [NoFiles EXCEPT ![<<"g">>] = File(RichAutoJSON, 0)],
      [NoFiles EXCEPT ![<<"g">>] = File(RichJSON, 0)],
      [NoFiles EXCEPT ![<<"g">>] = File(LegacyJSON, 0)] }

\* the Descriptions that callers of UpdateDescription supply
InputDescriptions ==
    { [Description EXCEPT !.AutoSubgroups = TRUE],
      [Description EXCEPT !.DisplayName = "abcde"],
      [Description EXCEPT !.Op =
          Some(<<ClientPattern("eve", Some(plainPassword("pw")))>>)],
      [Description EXCEPT !.Users = Some(<<>>)],
      [Description EXCEPT !.FallbackUsers = Some(<<wildcard>>)],
      [Description EXCEPT !.AuthKeys = Some(<<"k2">>)] }

\* the tags a caller can hold: no tag, the tag of any file, any older tag
KnownTags ==
    {NoTag}
    \cup {makeETag(fs[n].size, fs[n].mtime) :
            n \in {m \in GroupPaths : fs[m].exists}}
    \cup UNION {stale[n] : n \in Names}

\* Add(name, nil) once GetDescription returned desc: the group keeps the
\* Description it was loaded with
Add(g, name, desc) == [g EXCEPT ![name] = Some(desc)]

\* the groups after every group that has a Description was added
loaded(f) ==
    [n \in Names |->
        IF readDescription(f, n).err = "nil"
        THEN Some(readDescription(f, n).desc) ELSE Nil]

Init ==
    /\ fs \in InitFiles
    /\ now = 0
    /\ mu = "free"
    /\ groups \in {[n \in Names |-> Nil], loaded(fs)}
    /\ pc = [p \in Procs |-> "idle"]
    /\ call = [p \in Procs |-> NoCall]
    /\ loc = [p \in Procs |-> NoLoc]
    /\ ret = [p \in Procs |-> NoRet]
    /\ ncalls = 0
    /\ stale = [n \in Names |-> {}]
    /\ deleted = [n \in Names |-> FALSE]
    /\ atLock = [p \in Procs |-> NoFiles]

\* ---------------------------------------------------------------- actions
\* the call of p returns r without releasing groups.mu
FinishLocked(p, r) ==
    /\ pc' = [pc EXCEPT ![p] = "done"]
    /\ ret' = [ret EXCEPT ![p] = r]
    /\ loc' = [loc EXCEPT ![p] = NoLoc]
    /\ mu' = mu
    /\ atLock' = [atLock EXCEPT ![p] = NoFiles]

\* the call of p returns r, releasing groups.mu if p holds it
Finish(p, r) ==
    /\ pc' = [pc EXCEPT ![p] = "done"]
    /\ ret' = [ret EXCEPT ![p] = r]
    /\ loc' = [loc EXCEPT ![p] = NoLoc]
    /\ mu' = IF mu = p THEN "free" ELSE mu
    /\ atLock' = [atLock EXCEPT ![p] = NoFiles]

\* UpdateDescription is called with a name, a tag and a Description of the
\* given sets; an unsanitised description is refused
InvokeUpdateFrom(p, names, etags, descs) ==
    /\ pc[p] \in {"idle", "done"} /\ ncalls < MaxCalls
    /\ \E name \in names, etag \in etags, desc \in descs :
        /\ call' = [call EXCEPT ![p] = [op |-> "UpdateDescription",
                        name |-> name, etag |-> etag, desc |-> desc]]
        /\ IF sanitised(desc)
           THEN /\ pc' = [pc EXCEPT ![p] = "lock"]
                /\ ret' = [ret EXCEPT ![p] = NoRet]
                /\ UNCHANGED <<loc, mu, atLock>>
           ELSE Finish(p, [err |-> "NotSanitised"])
    /\ ncalls' = ncalls + 1
    /\ UNCHANGED <<fs, now, groups, stale, deleted>>

InvokeUpdate(p) == InvokeUpdateFrom(p, Names, KnownTags, InputDescriptions)

\* DeleteDescription is called with a name and a tag of the given sets
InvokeDeleteFrom(p, names, etags) ==
    /\ pc[p] \in {"idle", "done"} /\ ncalls < MaxCalls
    /\ \E name \in names, etag \in etags :
        call' = [call EXCEPT ![p] = [op |-> "DeleteDescription",
                        name |-> name, etag |-> etag]]
    /\ pc' = [pc EXCEPT ![p] = "lock"]
    /\ ret' = [ret EXCEPT ![p] = NoRet]
    /\ ncalls' = ncalls + 1
    /\ UNCHANGED <<fs, now, mu, groups, loc, stale, deleted, atLock>>

InvokeDelete(p) == InvokeDeleteFrom(p, Names, KnownTags)

\* groups.mu.Lock()
Lock(p) ==
    /\ pc[p] = "lock"
    /\ canLock(mu, p)
    /\ mu' = p
    /\ atLock' = [atLock EXCEPT ![p] = fs]
    /\ pc' = [pc EXCEPT ![p] =
                IF call[p].op = "UpdateDescription" THEN "check" ELSE "delete"]
    /\ UNCHANGED <<fs, now, groups, call, loc, ret, ncalls, stale, deleted>>

\* UpdateDescription: read the old description, compare the tags
UpdateCheck(p) ==
    /\ pc[p] = "check"
    /\ LET r == updateCheck(fs, call[p].name, call[p].etag, call[p].desc) IN
        IF r.err # "nil" THEN Finish(p, r)
        ELSE /\ pc' = [pc EXCEPT ![p] = "createTemp"]
             /\ loc' = [loc EXCEPT ![p] = r]
             /\ UNCHANGED <<ret, mu, atLock>>
    /\ UNCHANGED <<fs, now, groups, call, ncalls, stale, deleted>>

\* UpdateDescription: os.CreateTemp
CreateTemp(p) ==
    /\ pc[p] = "createTemp"
    /\ \E ok \in BOOLEAN :
        LET t == createTemp(Dir(loc[p].filename), call[p].name, p) IN
        IF ok /\ t.err = "nil"
        THEN /\ fs' = [fs EXCEPT ![t.path] = EmptyFile(now)]
             /\ loc' = [loc EXCEPT ![p] =
                    [filename |-> loc[p].filename, newdesc |-> loc[p].newdesc,
                     oldetag |-> loc[p].oldetag, temp |-> t.path]]
             /\ pc' = [pc EXCEPT ![p] = "write"]
             /\ UNCHANGED <<ret, mu, atLock>>
        ELSE /\ Finish(p, [err |-> IF t.err = "nil" THEN "IO" ELSE t.err,
                            at |-> "CreateTemp"])
             /\ UNCHANGED fs
    /\ UNCHANGED <<now, groups, call, ncalls, stale, deleted>>

\* UpdateDescription: encoder.Encode, f.Sync and f.Close on the temporary
\* file; when one of them fails the temporary file is removed
WriteTemp(p) ==
    /\ pc[p] = "write"
    /\ \E failure \in {"none", "Encode", "Sync", "Close"} :
        IF failure = "none"
        THEN /\ fs' = [fs EXCEPT ![loc[p].temp] =
                            File(encode(loc[p].newdesc), now)]
             /\ pc' = [pc EXCEPT ![p] = "rename"]
             /\ UNCHANGED <<loc, ret, mu, atLock>>
        ELSE /\ fs' = remove(fs, loc[p].temp)
             /\ Finish(p, [err |-> "IO", at |-> failure])
    /\ UNCHANGED <<now, groups, call, ncalls, stale, deleted>>

\* UpdateDescription: os.Rename(temp, filename)
Rename(p) ==
    /\ pc[p] = "rename"
    /\ \E ok \in BOOLEAN :
        IF ok
        THEN /\ fs' = rename(fs, loc[p].temp, loc[p].filename)
             /\ Finish(p, [err |-> "nil"])
             /\ stale' = [stale EXCEPT ![call[p].name] = @ \cup {loc[p].oldetag}]
             /\ deleted' = [deleted EXCEPT ![call[p].name] = FALSE]
        ELSE /\ fs' = remove(fs, loc[p].temp)
             /\ Finish(p, [err |-> "IO", at |-> "Rename"])
             /\ UNCHANGED <<stale, deleted>>
    /\ UNCHANGED <<now, groups, call, ncalls>>

\* DeleteDescription: Stat, compare the tags, os.Remove
Delete(p) ==
    /\ pc[p] = "delete"
    /\ LET r == deleteCheck(fs, call[p].name, call[p].etag) IN
        IF r.err # "nil"
        THEN /\ Finish(p, r)
             /\ UNCHANGED <<fs, stale, deleted>>
        ELSE \E ok \in BOOLEAN :
            IF ok
            THEN /\ fs' = remove(fs, r.fileName)
                 /\ Finish(p, [err |-> "nil"])
                 /\ stale' = [stale EXCEPT ![call[p].name] = {}]
                 /\ deleted' = [deleted EXCEPT ![call[p].name] = TRUE]
            ELSE /\ Finish(p, [err |-> "IO", at |-> "Remove"])
                 /\ UNCHANGED <<fs, stale, deleted>>
    /\ UNCHANGED <<now, groups, call, ncalls>>

\* GetDescriptionTag is called and returns
GetTag(p) ==
    /\ pc[p] \in {"idle", "done"} /\ ncalls < MaxCalls
    /\ \E name \in Names :
        /\ call' = [call EXCEPT ![p] = [op |-> "GetDescriptionTag",
                                        name |-> name]]
        /\ Finish(p, GetDescriptionTag(fs, name))
    /\ ncalls' = ncalls + 1
    /\ UNCHANGED <<fs, now, groups, stale, deleted>>

ReadOps == {"GetDescription", "GetSanitisedDescription", "Add"}

\* GetDescription is called, by itself, by GetSanitisedDescription or by
\* Add (which caches its result in the group)
InvokeRead(p) ==
    /\ pc[p] \in {"idle", "done"} /\ ncalls < MaxCalls
    /\ \E name \in Names, op \in ReadOps :
        call' = [call EXCEPT ![p] = [op |-> op, name |-> name]]
    /\ pc' = [pc EXCEPT ![p] = "get"]
    /\ ret' = [ret EXCEPT ![p] = NoRet]
    /\ ncalls' = ncalls + 1
    /\ UNCHANGED <<fs, now, mu, groups, loc, stale, deleted, atLock>>

\* what the operation returns once GetDescription returned r
result(op, r) == IF op = "GetSanitisedDescription" THEN sanitise(r) ELSE r

\* GetDescription: the cached description is returned if it is unchanged;
\* otherwise readDescription opens the file that the name resolves to
Open(p) ==
    /\ pc[p] = "get"
    /\ LET r == getDescriptionFile(fs, call[p].name) IN
        IF cacheHit(fs, groups, call[p].name)
        THEN Finish(p, result(call[p].op,
                        [err |-> "nil", desc |-> groups[call[p].name].v]))
        ELSE IF r.err # "nil"
        THEN Finish(p, result(call[p].op, [err |-> r.err]))
        ELSE /\ loc' = [loc EXCEPT ![p] =
                    [file |-> fs[r.fileName], fileName |-> r.fileName,
                     isParent |-> r.isParent]]
             /\ pc' = [pc EXCEPT ![p] = "parse"]
             /\ UNCHANGED <<ret, mu, atLock>>
    /\ UNCHANGED <<fs, now, groups, call, ncalls, stale, deleted>>

\* os.Stat(fileName): the size and the time of the file that has the name
\* now, if there is one
statFileName(f, l) == IF f[l.fileName].exists THEN f[l.fileName] ELSE l.file

\* r.Stat(): the size and the time of the file that was opened, whatever
\* has the name now; nothing writes to a file once it has a group's name
statOpenFile(f, l) == l.file

\* readDescription: Stat of the open file, Decode, upgradeDescription
Parse(p) ==
    /\ pc[p] = "parse"
    /\ LET fi == statOpenFile(fs, loc[p])
           r == parseDescription([loc[p].file EXCEPT !.size = fi.size,
                                                     !.mtime = fi.mtime],
                                 loc[p].fileName, loc[p].isParent) IN
        /\ Finish(p, result(call[p].op, r))
        /\ groups' = IF call[p].op = "Add" /\ r.err = "nil"
                     THEN Add(groups, call[p].name, r.desc)
                     ELSE groups
    /\ UNCHANGED <<fs, now, call, ncalls, stale, deleted>>

\* the file-system clock advances
Tick ==
    /\ now < MaxClock
    /\ now' = now + 1
    /\ UNCHANGED <<fs, mu, groups, pc, call, loc, ret, ncalls, stale, deleted,
                   atLock>>

Next ==
    \/ \E p \in Procs : InvokeUpdate(p)
    \/ \E p \in Procs : InvokeDelete(p)
    \/ \E p \in Procs : Lock(p)
    \/ \E p \in Procs : UpdateCheck(p)
    \/ \E p \in Procs : CreateTemp(p)
    \/ \E p \in Procs : WriteTemp(p)
    \/ \E p \in Procs : Rename(p)
    \/ \E p \in Procs : Delete(p)
    \/ \E p \in Procs : GetTag(p)
    \/ \E p \in Procs : InvokeRead(p)
    \/ \E p \in Procs : Open(p)
    \/ \E p \in Procs : Parse(p)
    \/ Tick

Spec == Init /\ [][Next]_vars

\* ------------------------------------------------------------ properties
\* the secret fields of a Description, a nil and an empty collection alike
secrets(d) ==
    <<omitEmpty(d.Users), omitEmpty(d.FallbackUsers), omitEmpty(d.AuthKeys)>>

isUpdate(p) == call[p].op = "UpdateDescription"
isCreate(p) == isUpdate(p) /\ call[p].etag = NoTag

\* the strict ancestors of a name that have a file
ancestorFiles(n) == {a \in prefixes(Dir(n)) : fs[jsonPath(a)].exists}

\* the name has no file of its own and resolves to an ancestor's file
resolvesToAncestor(n) ==
    /\ getDescriptionFile(fs, n).err = "nil"
    /\ getDescriptionFile(fs, n).isParent

\* C1: an UpdateDescription of a name whose tag was captured before a
\* successful UpdateDescription of that name fails with Conflict and
\* changes no file.
C1_StaleTagConflicts ==
    [][\A p \in Procs :
        (pc[p] = "check" /\ call[p].etag \in stale[call[p].name])
            => (pc'[p] = "check"
                \/ (pc'[p] = "done" /\ ret'[p].err = "TagMismatch"
                    /\ fs' = fs))]_vars

\* C2: a create (UpdateDescription with the empty tag) passes its tag
\* check and commits only while no file exists at the path of its name,
\* and a create that finds a file there fails with Conflict; so of two
\* concurrent creates of one name at most one succeeds.
C2_CreateExclusive ==
    [][\A p \in Procs : isCreate(p) =>
        /\ (pc[p] = "check" /\ pc'[p] = "createTemp")
                => ~fs[jsonPath(call[p].name)].exists
        /\ (pc[p] = "check" /\ fs[jsonPath(call[p].name)].exists)
                => (pc'[p] = "check"
                    \/ (pc'[p] = "done" /\ ret'[p].err = "TagMismatch"))
        /\ (pc[p] = "rename" /\ pc'[p] = "done" /\ ret'[p].err = "nil")
                => (/\ ~fs[jsonPath(call[p].name)].exists
                    /\ fs'[jsonPath(call[p].name)].exists)]_vars

\* two creates of one name: one succeeded, the other got Conflict
C2_Witness ==
    \E p, q \in Procs :
        /\ p # q /\ isCreate(p) /\ isCreate(q)
        /\ call[p].name = call[q].name
        /\ pc[p] = "done" /\ ret[p].err = "nil"
        /\ pc[q] = "done" /\ ret[q].err = "TagMismatch"

\* C3: after a successful UpdateDescription, GetDescription of the name
\* returns the Users, FallbackUsers and AuthKeys it returned just before
\* the update, and empty ones if there was no prior version.
C3_SecretsPreserved ==
    [][\A p \in Procs :
        (pc[p] = "rename" /\ pc'[p] = "done" /\ ret'[p].err = "nil") =>
            LET before == GetDescription(fs, groups, call[p].name)
                after == GetDescription(fs', groups', call[p].name)
            IN /\ after.err = "nil"
               /\ secrets(after.desc) =
                    IF before.err = "nil" THEN secrets(before.desc)
                    ELSE <<Nil, Nil, Nil>>]_vars

\* C4: the file at a group's path is always a complete document, a file
\* that a reader has open or has parsed is complete, and a group's file
\* only ever changes by being removed or by becoming the complete new
\* document of the update that renames onto it.
C4_AtomicPublication ==
    /\ [](\A path \in GroupPaths : fs[path].exists => fs[path].complete)
    /\ [](\A p \in Procs : /\ pc[p] = "parse" => loc[p].file.complete
                           /\ ret[p].err # "Decode")
    /\ [][\A path \in GroupPaths : fs'[path] # fs[path] =>
            \/ fs'[path] = NoFile
            \/ \E p \in Procs :
                /\ pc[p] = "rename" /\ loc[p].filename = path
                /\ fs'[path].complete
                /\ fs'[path].doc = encode(loc[p].newdesc)]_vars

\* a reader parses the previous version of a file that an update has
\* replaced since the reader opened it
C4_Witness ==
    \E p, q \in Procs :
        /\ pc[p] = "parse"
        /\ isUpdate(q) /\ pc[q] = "done" /\ ret[q].err = "nil"
        /\ loc[p].fileName = jsonPath(call[q].name)
        /\ loc[p].file # fs[loc[p].fileName]

\* C5: when UpdateDescription returns an error, the file system is as it
\* was when the call took the lock: the target is unchanged and no
\* temporary file of the call remains.
C5_FailedUpdateLeavesNoTrace ==
    [][\A p \in Procs :
        (isUpdate(p) /\ pc[p] \in {"check", "createTemp", "write", "rename"}
         /\ pc'[p] = "done" /\ ret'[p].err # "nil")
            => fs' = atLock[p]]_vars

\* an update failed at the rename, after its temporary file was written
C5_Witness ==
    \E p \in Procs :
        /\ isUpdate(p) /\ pc[p] = "done"
        /\ ret[p] = [err |-> "IO", at |-> "Rename"]

\* C6: after a successful DeleteDescription of a name and with no create
\* of it since, GetDescription of the name fails with NotFound.
C6_DeletedIsNotFound ==
    \A n \in Names :
        deleted[n] => GetDescription(fs, groups, n).err = "NotExist"

\* C6, amended: after a successful DeleteDescription of a name and with no
\* create of it since, GetDescription of the name fails with NotFound
\* when no ancestor of the name has a file; when one has, it fails with
\* NotFound or returns the auto-derived subgroup Description of an
\* ancestor's file, never a Description of the deleted file.
C6_DeletedIsNotFoundOrSubgroup ==
    \A n \in Names :
        deleted[n] =>
            LET r == GetDescription(fs, groups, n) IN
            /\ r.err \in {"nil", "NotExist"}
            /\ ancestorFiles(n) = {} => r.err = "NotExist"
            /\ r.err = "nil" =>
                /\ r.desc.isSubgroup
                /\ r.desc.FileName \in {jsonPath(a) : a \in ancestorFiles(n)}

\* a group that was cached was deleted, and its name now yields the
\* subgroup of its parent
C6_Witness ==
    \E n \in Names :
        /\ deleted[n] /\ groups[n] # Nil
        /\ GetDescription(fs, groups, n).err = "nil"
        /\ \E p \in Procs :
            /\ call[p] = [op |-> "DeleteDescription", name |-> n,
                          etag |-> call[p].etag]
            /\ pc[p] = "done" /\ ret[p].err = "nil"

\* what C7 expects for a name that resolves to the file at path a
subgroupOf(a) ==
    [upgradeDescription(decode(fs[a].doc)) EXCEPT
        !.isSubgroup = TRUE, !.Public = FALSE, !.Description = "",
        !.FileName = a, !.fileSize = fs[a].size, !.modTime = fs[a].mtime]

\* C7: GetDescription of a name without a file of its own yields the
\* ancestor's Description with isSubgroup set, Public cleared and an empty
\* description text if the resolving ancestor file has AutoSubgroups, and
\* fails with NotFound if it has not or if no file exists along the chain.
C7_SubgroupInheritance ==
    \A n \in Names :
        LET r0 == getDescriptionFile(fs, n)
            r == GetDescription(fs, groups, n)
        IN /\ r0.err = "NotExist" => r.err = "NotExist"
           /\ (r0.err = "nil" /\ r0.isParent) =>
                IF fs[r0.fileName].doc.AutoSubgroups
                THEN r = [err |-> "nil", desc |-> subgroupOf(r0.fileName)]
                ELSE r.err = "NotExist"

\* C8: a Description returned by GetSanitisedDescription has no Users,
\* FallbackUsers or AuthKeys and is not a subgroup, and
\* GetSanitisedDescription fails with NotFound for a name that resolves
\* to an ancestor's file.
C8_SanitisedView ==
    /\ \A p \in Procs :
        (call[p].op = "GetSanitisedDescription" /\ ret[p].err = "nil") =>
            /\ ret[p].desc.Users = Nil
            /\ ret[p].desc.FallbackUsers = Nil
            /\ ret[p].desc.AuthKeys = Nil
            /\ ~ret[p].desc.isSubgroup
    /\ \A n \in Names :
        resolvesToAncestor(n) =>
            GetSanitisedDescription(fs, groups, n).err = "NotExist"

\* one call got the sanitised view of a group that has users, another was
\* refused the view of an automatic subgroup
C8_Witness ==
    \E p, q \in Procs :
        /\ call[p].op = "GetSanitisedDescription" /\ ret[p].err = "nil"
        /\ fs[ret[p].desc.FileName].exists
        /\ fs[ret[p].desc.FileName].doc.Users # Nil
        /\ call[q].op = "GetSanitisedDescription"
        /\ ret[q].err = "NotExist"
        /\ resolvesToAncestor(call[q].name)
        /\ fs[getDescriptionFile(fs, call[q].name).fileName].doc.AutoSubgroups

\* C9: GetDescriptionTag and DeleteDescription of a name that has no file
\* of its own but resolves to an ancestor's file fail with NotFound,
\* whatever the tag and the ancestor's AutoSubgroups, and the delete
\* removes no file.
C9_SubgroupNotAddressable ==
    /\ [](\A n \in Names :
            resolvesToAncestor(n) =>
                GetDescriptionTag(fs, n).err = "NotExist")
    /\ [][\A p \in Procs :
            (pc[p] = "delete" /\ resolvesToAncestor(call[p].name))
                => (pc'[p] = "delete"
                    \/ (ret'[p].err = "NotExist" /\ fs' = fs))]_vars

\* a delete of a subgroup name with the tag of its parent's file, which
\* has AutoSubgroups, was refused
C9_Witness ==
    \E p \in Procs :
        /\ call[p].op = "DeleteDescription" /\ pc[p] = "done"
        /\ ret[p].err = "NotExist"
        /\ resolvesToAncestor(call[p].name)
        /\ LET a == getDescriptionFile(fs, call[p].name).fileName IN
            /\ call[p].etag = makeETag(fs[a].size, fs[a].mtime)
            /\ fs[a].doc.AutoSubgroups

\* the cached Description of n is still valid, as C10 states it
cacheValid(n) ==
    /\ groups[n] # Nil
    /\ \E path \in GroupPaths :
        /\ path \in prefixes(jsonPath(n))
        /\ fs[path].exists
        /\ \A q \in prefixes(jsonPath(n)) :
                Len(q) > Len(path) => ~fs[q].exists
        /\ path = groups[n].v.FileName
        /\ fs[path].size = groups[n].v.fileSize
        /\ fs[path].mtime = groups[n].v.modTime

\* C10: GetDescription returns the cached Description only if the name
\* still resolves to the cached file path and that file's size and
\* modification time are the recorded ones; otherwise it returns a fresh
\* parse of the file the name resolves to.
C10_CacheValidation ==
    /\ [](\A n \in Names :
            GetDescription(fs, groups, n) =
                IF cacheValid(n)
                THEN [err |-> "nil", desc |-> groups[n].v]
                ELSE readDescription(fs, n))
    /\ [][\A p \in Procs :
            (pc[p] = "get" /\ pc'[p] # "get"
             /\ call[p].op \in {"GetDescription", "Add"}) =>
                IF cacheValid(call[p].name)
                THEN /\ pc'[p] = "done"
                     /\ ret'[p] = [err |-> "nil",
                                   desc |-> groups[call[p].name].v]
                ELSE \/ pc'[p] = "parse"
                     \/ (pc'[p] = "done" /\ ret'[p].err = "NotExist")]_vars

\* a GetDescription of a cached group whose file was replaced returned
\* the Description of the new file
C10_Witness ==
    \E p \in Procs :
        /\ call[p].op = "GetDescription" /\ pc[p] = "done"
        /\ ret[p].err = "nil"
        /\ groups[call[p].name] # Nil
        /\ ret[p].desc # groups[call[p].name].v
        /\ ret[p] = readDescription(fs, call[p].name)

\* ------------------------------------------------ Permissions.Permissions
\* the store at rest: the specifications of the pure functions leave every
\* variable but pc, call and ret as it is here
AtRest ==
    /\ fs = NoFiles
    /\ now = 0
    /\ mu = "free"
    /\ groups = [n \in Names |-> Nil]
    /\ loc = [p \in Procs |-> NoLoc]
    /\ ncalls = 0
    /\ stale = [n \in Names |-> {}]
    /\ deleted = [n \in Names |-> FALSE]
    /\ atLock = [p \in Procs |-> NoFiles]

\* a function is applied to the arguments of the call of p and returns r
Apply(p, r) ==
    /\ pc[p] = "idle"
    /\ Finish(p, r)
    /\ UNCHANGED <<fs, now, groups, call, ncalls, stale, deleted>>

\* the four named roles, explicit lists and the zero value
PermissionsInputs ==
    {namedPermissions(n) : n \in DOMAIN permissionsMap}
    \cup {listPermissions(a) :
            a \in {<<>>, <<"op">>, <<"present">>, <<"present", "op">>}}
    \cup {noPermissions}

\* no Description, and one for every combination of the two flags
PolicyInputs ==
    {Nil} \cup {Some([Description EXCEPT !.AllowRecording = r,
                                         !.UnrestrictedTokens = t]) :
                    r, t \in BOOLEAN}

PermCalls ==
    {[op |-> "Permissions", p |-> p, desc |-> d] :
        p \in PermissionsInputs, d \in PolicyInputs}

PermInit ==
    /\ AtRest
    /\ pc = [p \in Procs |-> "idle"]
    /\ call \in [Procs -> PermCalls]
    /\ ret = [p \in Procs |-> NoRet]

CallPermissions(p) ==
    /\ call[p].op = "Permissions"
    /\ Apply(p, [err |-> "nil",
                 perms |-> Permissions(call[p].p, call[p].desc)])

PermNext == \E p \in Procs : CallPermissions(p)

PermSpec == PermInit /\ [][PermNext]_vars

\* the elements of a slice
asSet(a) == {a[i] : i \in DOMAIN a}

\* the reference resolution of a named role under the two policy flags
Resolve(role, allowRecording, unrestrictedTokens) ==
    LET base == CASE role = "op" -> {"op", "present", "token"}
                  [] role = "present" -> {"present"}
                  [] role = "observe" -> {}
                  [] role = "admin" -> {"admin"}
    IN base
       \cup (IF "op" \in base /\ "record" \notin base /\ allowRecording
             THEN {"record"} ELSE {})
       \cup (IF "present" \in base /\ "token" \notin base
                /\ unrestrictedTokens
             THEN {"token"} ELSE {})

\* C11: Permissions.Permissions(desc) returns an explicit list unchanged
\* whatever the flags, and for a named role a list whose set of elements
\* is the role's base set, plus record iff the base has op without record
\* and AllowRecording is set, plus token iff the base has present without
\* token and UnrestrictedTokens is set; observe never gains anything.
C11_PermissionsMatrix ==
    \A p \in Procs :
        (pc[p] = "done" /\ call[p].op = "Permissions") =>
            LET c == call[p]
                r == ret[p].perms
            IN IF c.p.name = "" THEN r = c.p.permissions
               ELSE /\ r # Nil
                    /\ asSet(r.v) =
                        Resolve(c.p.name,
                                c.desc # Nil /\ c.desc.v.AllowRecording,
                                c.desc # Nil /\ c.desc.v.UnrestrictedTokens)
                    /\ c.p.name = "observe" => r.v = <<>>

\* with both flags set, op gained record and an explicit list that holds
\* present and op came back as it was
C11_Witness ==
    \E p, q \in Procs :
        /\ pc[p] = "done" /\ call[p].op = "Permissions"
        /\ call[p].p = namedPermissions("op")
        /\ call[p].desc # Nil
        /\ call[p].desc.v.AllowRecording /\ call[p].desc.v.UnrestrictedTokens
        /\ asSet(ret[p].perms.v) = {"op", "present", "token", "record"}
        /\ pc[q] = "done" /\ call[q].op = "Permissions"
        /\ call[q].p = listPermissions(<<"present", "op">>)
        /\ call[q].desc = call[p].desc
        /\ ret[q].perms = Some(<<"present", "op">>)

\* --------------------------------------------------------- authentication
\* Password.Match(secret): a wildcard matches every secret, a plain
\* password the secret equal to it
Match(pw, secret) == pw.Type = "wildcard" \/ pw.Key = secret

\* the index of the last entry of the list whose password matches, or 0
lastMatch(users, secret) ==
    LET hits == {i \in DOMAIN users : Match(users[i].Password, secret)}
    IN IF hits = {} THEN 0
       ELSE CHOOSE i \in hits : \A j \in hits : j <= i

\* the index of the first entry of the list whose password matches, or 0
firstMatch(users, secret) ==
    LET hits == {i \in DOMAIN users : Match(users[i].Password, secret)}
    IN IF hits = {} THEN 0
       ELSE CHOOSE i \in hits : \A j \in hits : i <= j

\* authentication that tries the fallback users after a known user's
\* password did not match
GetPermissionFallThrough(desc, username, secret) ==
    LET fallback == IF desc.FallbackUsers = Nil THEN <<>>
                    ELSE desc.FallbackUsers.v
        i == firstMatch(fallback, secret)
    IN IF /\ desc.Users # Nil /\ username \in DOMAIN desc.Users.v
          /\ Match(desc.Users.v[username].Password, secret)
       THEN [err |-> "nil", username |-> username,
             perms |-> Permissions(desc.Users.v[username].Permissions,
                                   Some(desc))]
       ELSE IF i = 0 THEN [err |-> "NotAuthorised"]
       ELSE [err |-> "nil", username |-> username,
             perms |-> Permissions(fallback[i].Permissions, Some(desc))]

\* g.GetPermission(creds) on a group whose description is desc: a user of
\* Users is decided by that user's password alone, any other username by
\* the first fallback user whose password matches
GetPermission(desc, username, secret) ==
    LET fallback == IF desc.FallbackUsers = Nil THEN <<>>
                    ELSE desc.FallbackUsers.v
        i == firstMatch(fallback, secret)
    IN IF desc.Users # Nil /\ username \in DOMAIN desc.Users.v
       THEN IF Match(desc.Users.v[username].Password, secret)
            THEN [err |-> "nil", username |-> username,
                  perms |-> Permissions(desc.Users.v[username].Permissions,
                                        Some(desc))]
            ELSE [err |-> "NotAuthorised"]
       ELSE IF i = 0 THEN [err |-> "NotAuthorised"]
       ELSE [err |-> "nil", username |-> username,
             perms |-> Permissions(fallback[i].Permissions, Some(desc))]

peter == UserDescription(plainPassword("secret4"), noPermissions)
guest == UserDescription(plainPassword("guest"), namedPermissions("present"))

\* the users of the test, with different lists of fallback users
AuthDescriptions ==
    LET users == Some(("jch" :> jch) @@ ("john" :> john) @@ ("peter" :> peter))
    IN { [Description EXCEPT !.Users = users,
                             !.FallbackUsers = Some(<<wildcard>>)],
         [Description EXCEPT !.Users = users, !.UnrestrictedTokens = TRUE,
                             !.FallbackUsers = Some(<<guest, wildcard>>)],
         [Description EXCEPT !.Users = users,
                             !.FallbackUsers = Some(<<wildcard, guest>>)],
         [Description EXCEPT !.Users = users],
         [Description EXCEPT !.FallbackUsers = Some(<<guest>>)] }

AuthCalls ==
    {[op |-> "GetPermission", desc |-> d, username |-> u, secret |-> k] :
        d \in AuthDescriptions,
        u \in {"jch", "john", "peter", "paul"},
        k \in {"topsecret", "secret", "guest", "foo"}}

AuthInit ==
    /\ AtRest
    /\ pc = [p \in Procs |-> "idle"]
    /\ call \in [Procs -> AuthCalls]
    /\ ret = [p \in Procs |-> NoRet]

CallGetPermission(p) ==
    /\ call[p].op = "GetPermission"
    /\ Apply(p, GetPermission(call[p].desc, call[p].username,
                              call[p].secret))

AuthNext == \E p \in Procs : CallGetPermission(p)

AuthSpec == AuthInit /\ [][AuthNext]_vars

\* the call of p is a finished authentication
authenticated(p) == pc[p] = "done" /\ call[p].op = "GetPermission"

\* the claimed username of the call of p is a key of Users
knownUser(p) ==
    /\ call[p].desc.Users # Nil
    /\ call[p].username \in DOMAIN call[p].desc.Users.v

\* the fallback users of the call of p that verify its secret
verifying(p) ==
    IF call[p].desc.FallbackUsers = Nil THEN {}
    ELSE {i \in DOMAIN call[p].desc.FallbackUsers.v :
            Match(call[p].desc.FallbackUsers.v[i].Password, call[p].secret)}

resolved(perms, u, d) ==
    IF u.Permissions.name = "" THEN perms = u.Permissions.permissions
    ELSE /\ perms # Nil
         /\ asSet(perms.v) = Resolve(u.Permissions.name, d.AllowRecording,
                                     d.UnrestrictedTokens)

\* C13: authentication with a username that is not a key of Users succeeds
\* on the first fallback user, in the order of FallbackUsers, whose
\* credential verifies the secret, returning the caller-supplied username
\* and that entry's resolved capabilities, and fails with NotAuthorised
\* when no entry verifies.
C13_FallbackFirstMatch ==
    \A p \in Procs :
        (authenticated(p) /\ ~knownUser(p)) =>
            IF verifying(p) = {} THEN ret[p].err = "NotAuthorised"
            ELSE \E i \in verifying(p) :
                /\ \A j \in verifying(p) : i <= j
                /\ ret[p].err = "nil"
                /\ ret[p].username = call[p].username
                /\ resolved(ret[p].perms,
                            call[p].desc.FallbackUsers.v[i], call[p].desc)

\* paul got the capabilities of the first of two fallback users that both
\* verify his secret, and they are not those of the second
C13_Witness ==
    \E p \in Procs :
        /\ authenticated(p) /\ call[p].username = "paul"
        /\ Cardinality(verifying(p)) = 2
        /\ ret[p].err = "nil" /\ ret[p].username = "paul"
        /\ asSet(ret[p].perms.v) = {"present", "token"}
        /\ \E q \in Procs :
            /\ authenticated(q) /\ ~knownUser(q)
            /\ verifying(q) = {} /\ ret[q].err = "NotAuthorised"

\* ------------------------------------------------------ upgradeDescription
MaxPatterns == 2

\* the entries of the obsolete lists: a user with a password, the same
\* user without one, an entry without a username
LegacyPatterns ==
    { ClientPattern("jch", Some(plainPassword("topsecret"))),
      ClientPattern("jch", Nil),
      ClientPattern("", Nil) }

\* no list, and every list of at most MaxPatterns entries
LegacyLists ==
    {Nil} \cup {Some(ps) :
                    ps \in UNION {[1..k -> LegacyPatterns] : k \in 0..MaxPatterns}}

\* a document of the obsolete format alone, one that also has users and
\* fallback users, and one that has the user of the lists already
LegacyDescriptions ==
    {[b EXCEPT !.Op = o, !.Presenter = pr, !.Other = ot] :
        b \in { Description,
                [Description EXCEPT !.AllowSubgroups = TRUE,
                                    !.AllowAnonymous = TRUE,
                                    !.Users = Some(("john" :> john)),
                                    !.FallbackUsers = Some(<<wildcard>>)],
                [Description EXCEPT !.Users = Some(("jch" :> jch))] },
        o \in LegacyLists, pr \in LegacyLists, ot \in LegacyLists}

\* every caller upgrades the Description that was decoded
UpgradeInit ==
    /\ AtRest
    /\ pc = [p \in Procs |-> "idle"]
    /\ \E d \in LegacyDescriptions :
        call = [p \in Procs |-> [op |-> "upgradeDescription", desc |-> d]]
    /\ ret = [p \in Procs |-> NoRet]

\* upgradeDescription(&desc)
Upgrade(p) ==
    /\ call[p].op = "upgradeDescription"
    /\ Apply(p, [err |-> "nil", desc |-> upgradeDescription(call[p].desc)])

\* upgradeDescription(&desc) on the Description it has upgraded
UpgradeAgain(p) ==
    /\ call[p].op = "upgradeDescription"
    /\ pc[p] = "done"
    /\ pc' = [pc EXCEPT ![p] = "again"]
    /\ call' = [call EXCEPT ![p].desc = ret[p].desc]
    /\ ret' = [ret EXCEPT ![p].desc = upgradeDescription(ret[p].desc)]
    /\ UNCHANGED <<fs, now, mu, groups, loc, ncalls, stale, deleted, atLock>>

UpgradeNext ==
    \/ \E p \in Procs : Upgrade(p)
    \/ \E p \in Procs : UpgradeAgain(p)

UpgradeSpec == UpgradeInit /\ [][UpgradeNext]_vars

\* a slice that may be nil as a sequence, a map that may be nil as its
\* set of keys
listOf(o) == IF o = Nil THEN <<>> ELSE o.v
keysOf(o) == IF o = Nil THEN {} ELSE DOMAIN o.v

\* the entries of the three obsolete lists in the order op, presenter,
\* other, each with the role of its list
legacyEntries(d) ==
    LET tagged(o, role) ==
            [i \in DOMAIN listOf(o) |->
                [Username |-> listOf(o)[i].Username,
                 Password |-> listOf(o)[i].Password, role |-> role]]
    IN tagged(d.Op, "op") \o tagged(d.Presenter, "present")
        \o tagged(d.Other, "observe")

\* the modern user description that expresses a legacy entry
modernUser(e) ==
    UserDescription(IF e.Password = Nil THEN [Type |-> "wildcard", Key |-> ""]
                    ELSE e.Password.v,
                    namedPermissions(e.role))

RECURSIVE modernUsers(_)
modernUsers(es) ==
    IF es = <<>> THEN <<>> ELSE <<modernUser(Head(es))>> \o modernUsers(Tail(es))

\* d upgraded to r as C14 states it
upgraded(d, r) ==
    LET es == legacyEntries(d)
        named == {i \in DOMAIN es : es[i].Username # ""}
        kept == {i \in named :
                    /\ es[i].Username \notin keysOf(d.Users)
                    /\ \A j \in named : es[j].Username = es[i].Username => i <= j}
    IN /\ keysOf(r.Users) = keysOf(d.Users) \cup {es[i].Username : i \in named}
       /\ \A u \in keysOf(d.Users) : r.Users.v[u] = d.Users.v[u]
       /\ \A i \in kept :
            /\ r.Users.v[es[i].Username] = modernUser(es[i])
            /\ asSet(Permissions(r.Users.v[es[i].Username].Permissions,
                                 Some(r)).v)
                = Resolve(es[i].role, r.AllowRecording, r.UnrestrictedTokens)
       /\ listOf(r.FallbackUsers) =
            listOf(d.FallbackUsers)
                \o modernUsers(SelectSeq(es, LAMBDA e : e.Username = ""))
       /\ isEmpty(r.Op) /\ isEmpty(r.Presenter) /\ isEmpty(r.Other)

\* the call of p is a finished first upgrade
upgradedOnce(p) == pc[p] = "done" /\ call[p].op = "upgradeDescription"

\* C14: upgradeDescription turns every entry of the op, presenter and
\* other lists that has a username into a Users entry with the role of its
\* list (op, present, observe), unless the username is already a key of
\* Users, in which case the entry is dropped (first occurrence wins, in the
\* order op, presenter, other); every entry without a username is appended
\* to FallbackUsers; the three lists are empty afterwards; the resolved
\* capabilities are those of the equivalent modern document.
C14_LegacyMigration ==
    \A p \in Procs :
        upgradedOnce(p) => upgraded(call[p].desc, ret[p].desc)

\* jch was an operator with a password and a presenter without one and is
\* migrated as the operator; an entry without a username became a
\* fallback user after the one the document had
C14_Witness ==
    \E p \in Procs :
        /\ upgradedOnce(p)
        /\ call[p].desc.Op =
            Some(<<ClientPattern("jch", Some(plainPassword("topsecret")))>>)
        /\ call[p].desc.Presenter =
            Some(<<ClientPattern("jch", Nil), ClientPattern("", Nil)>>)
        /\ call[p].desc.Other = Nil
        /\ call[p].desc.FallbackUsers = Some(<<wildcard>>)
        /\ ret[p].desc.Users.v["jch"] = jch
        /\ Len(ret[p].desc.FallbackUsers.v) = 2

\* C15: upgradeDescription applied to a Description that is already
\* upgraded changes no field of it.
C15_MigrationIdempotent ==
    \A p \in Procs :
        (pc[p] = "again" /\ call[p].op = "upgradeDescription")
            => ret[p].desc = call[p].desc

\* a document with obsolete lists and flags was upgraded twice
C15_Witness ==
    \E p \in Procs :
        /\ pc[p] = "again" /\ call[p].op = "upgradeDescription"
        /\ call[p].desc.Users # Nil /\ call[p].desc.FallbackUsers # Nil
        /\ Len(call[p].desc.FallbackUsers.v) = 3
        /\ call[p].desc.AutoSubgroups
        /\ ret[p].desc = call[p].desc

\* ------------------------------------------- one call at a time, any name
\* the file names that getDescriptionFile passes to os.Stat or os.Open
RECURSIVE probed(_, _)
probed(f, name) ==
    IF name = <<>> THEN {}
    ELSE IF f[jsonPath(name)].exists THEN {jsonPath(name)}
    ELSE {jsonPath(name)} \cup probed(f, parent(name))

\* the outcome of a call: its error, the files it accessed and the file
\* system it leaves
outcome(err, accessed, f) == [err |-> err, accessed |-> accessed, fs |-> f]

\* DeleteDescription after the tag comparison with result c
deleteCommit(f, name, c) ==
    outcome(c.err, probed(f, name),
            IF c.err = "nil" THEN remove(f, c.fileName) ELSE f)

\* DeleteDescription from the call to the return, without a storage fault
DeleteDescription(f, name, etag) ==
    deleteCommit(f, name, deleteCheck(f, name, etag))

\* UpdateDescription after os.CreateTemp with result tmp: the document is
\* written to the temporary file at time t and renamed
updateWrite(f, t, name, c, tmp) ==
    IF tmp.err # "nil" THEN outcome(tmp.err, probed(f, name), f)
    ELSE outcome("nil", probed(f, name) \cup {tmp.path, c.filename},
                 rename([f EXCEPT ![tmp.path] = File(encode(c.newdesc), t)],
                        tmp.path, c.filename))

\* UpdateDescription after the tag comparison with result c
updateCommit(f, t, name, p, c) ==
    IF c.err # "nil" THEN outcome(c.err, probed(f, name), f)
    ELSE updateWrite(f, t, name, c, createTemp(Dir(c.filename), name, p))

\* UpdateDescription from the call to the return, without a storage fault,
\* at time t
UpdateDescription(f, t, name, etag, desc, p) ==
    IF ~sanitised(desc) THEN outcome("NotSanitised", {}, f)
    ELSE updateCommit(f, t, name, p, updateCheck(f, name, etag, desc))

\* the tag the administrative API passes on for a PUT of the name
apiTagOf(r) == IF r.err = "nil" THEN r.etag ELSE NoTag
apiTag(f, name) == apiTagOf(GetDescriptionTag(f, name))

\* a call is made and runs to its return
Returns(p, c, r) ==
    /\ pc[p] \in {"idle", "done"} /\ ncalls < MaxCalls
    /\ call' = [call EXCEPT ![p] = c]
    /\ Finish(p, r)
    /\ ncalls' = ncalls + 1
    /\ UNCHANGED <<now, groups, stale, deleted>>

\* a call that changes no file
Reads(p, c, r) ==
    /\ Returns(p, c, [accessed |-> probed(fs, c.name)] @@ r)
    /\ UNCHANGED fs

\* a call that may change files, with outcome r
Writes(p, c, r) ==
    /\ Returns(p, c, [err |-> r.err, accessed |-> r.accessed])
    /\ fs' = r.fs

SeqGet(p) ==
    \E name \in Names \cup InvalidNames :
        Reads(p, [op |-> "GetDescription", name |-> name],
              GetDescription(fs, groups, name))

SeqTag(p) ==
    \E name \in Names \cup InvalidNames :
        Reads(p, [op |-> "GetDescriptionTag", name |-> name],
              GetDescriptionTag(fs, name))

\* a sanitised Description and one that is not
SeqDescriptions ==
    { [Description EXCEPT !.DisplayName = "abcde"],
      [Description EXCEPT !.Users = Some(<<>>)] }

SeqUpdate(p) ==
    \E name \in Names \cup InvalidNames, desc \in SeqDescriptions :
        \E etag \in KnownTags :
            Writes(p, [op |-> "UpdateDescription", name |-> name,
                       etag |-> etag, desc |-> desc],
                   UpdateDescription(fs, now, name, etag, desc, p))

SeqDelete(p) ==
    \E name \in Names \cup InvalidNames :
        \E etag \in {NoTag, apiTag(fs, name)} :
            Writes(p, [op |-> "DeleteDescription", name |-> name,
                       etag |-> etag],
                   DeleteDescription(fs, name, etag))

SeqNext ==
    \/ \E p \in Procs : SeqGet(p)
    \/ \E p \in Procs : SeqTag(p)
    \/ \E p \in Procs : SeqUpdate(p)
    \/ \E p \in Procs : SeqDelete(p)
    \/ Tick

\* no group is loaded
SeqInit == Init /\ groups = [n \in Names |-> Nil]

SeqSpec == SeqInit /\ [][SeqNext]_vars

\* validGroupName(name): no empty, "." or ".." segment, and so no leading
\* or trailing separator
validGroupName(name) ==
    /\ name # <<>>
    /\ \A i \in DOMAIN name : name[i] \notin {"", ".", ".."}

\* C16: the names "", "/", "/g", "g/", "./g", "g/.", "../g", "g/..",
\* "g/./s" and "g/../s" are invalid, and GetDescription,
\* GetDescriptionTag, UpdateDescription and DeleteDescription return
\* InvalidName for an invalid name without having accessed a file.
C16_InvalidNamesRejected ==
    /\ \A n \in InvalidNames : ~validGroupName(n)
    /\ \A n \in Names : validGroupName(n)
    /\ \A p \in Procs :
        (pc[p] = "done" /\ ~validGroupName(call[p].name)) =>
            /\ ret[p].err = "InvalidName"
            /\ ret[p].accessed = {}

\* ------------------------------------------------------ mutual exclusion
\* the call of p is between taking groups.mu and its return: at the read
\* of the current tag, the comparison, or on the way to the commit
mutating(p) == pc[p] \in {"check", "createTemp", "write", "rename", "delete"}

\* C17: at most one UpdateDescription or DeleteDescription is between its
\* tag check and its commit at any time, whatever the groups they are for,
\* and while one is there every change of a file is a step of that call.
C17_MutationsSerialised ==
    /\ [](\A p, q \in Procs : (mutating(p) /\ mutating(q)) => p = q)
    /\ [](\A p \in Procs : mutating(p) => mu = p)
    /\ [][fs' # fs => \E p \in Procs : mutating(p) /\ pc'[p] # pc[p]]_vars

\* an update of g is about to rename while a delete of g/s, which has a
\* file of its own, waits for the lock
C17_Witness ==
    \E p, q \in Procs :
        /\ isUpdate(p) /\ pc[p] = "rename" /\ call[p].name = <<"g">>
        /\ call[q].op = "DeleteDescription" /\ pc[q] = "lock"
        /\ call[q].name = <<"g", "s">>
        /\ fs[<<"g", "s">>].exists
        /\ call[q].etag = makeETag(fs[<<"g", "s">>].size,
                                   fs[<<"g", "s">>].mtime)

\* ------------------------------------------------------- the JSON codec
\* users with an explicit list of permissions, one of them empty
ann == UserDescription(plainPassword("pw"), listPermissions(<<"present", "op">>))
bob == UserDescription(plainPassword("pw2"), listPermissions(<<>>))

\* the metadata of a Description: of one that was never loaded, of one
\* loaded from g.json, and of a subgroup resolved to g.json
CodecMetadata ==
    { [FileName |-> <<>>, modTime |-> 0, fileSize |-> 0, isSubgroup |-> FALSE],
      [FileName |-> <<"g">>, modTime |-> 1, fileSize |-> 3, isSubgroup |-> FALSE],
      [FileName |-> <<"g">>, modTime |-> 0, fileSize |-> 24, isSubgroup |-> TRUE] }

\* Descriptions with users that have a named role, an explicit list and no
\* permissions, with collections that are nil, empty and populated, with
\* the optional fields set and left out
CodecDescriptions ==
    { [Description EXCEPT
            !.FileName = m.FileName, !.modTime = m.modTime,
            !.fileSize = m.fileSize, !.isSubgroup = m.isSubgroup,
            !.DisplayName = n, !.Public = b, !.AutoSubgroups = b,
            !.Users = u, !.FallbackUsers = fb, !.AuthKeys = k, !.Op = o] :
        m \in CodecMetadata, n \in {"", "G"}, b \in BOOLEAN,
        u \in { Nil, Some(<<>>), Some(("bob" :> bob)),
                Some(("jch" :> jch) @@ ("ann" :> ann) @@ ("peter" :> peter)) },
        fb \in { Nil, Some(<<>>), Some(<<wildcard, ann, peter>>) },
        k \in { Nil, Some(<<"k1">>) },
        o \in { Nil, Some(<<>>),
                Some(<<ClientPattern("eve", Some(plainPassword("pw")))>>) } }

CodecInit ==
    /\ AtRest
    /\ pc = [p \in Procs |-> "idle"]
    /\ \E d \in CodecDescriptions :
        call = [p \in Procs |-> [op |-> "json", desc |-> d]]
    /\ ret = [p \in Procs |-> NoRet]

\* json.Marshal(d)
Marshal(p) ==
    /\ call[p].op = "json"
    /\ Apply(p, [err |-> "nil", doc |-> encode(call[p].desc)])

\* json.Unmarshal(dd, &ddd) of the document that Marshal wrote
Unmarshal(p) ==
    /\ call[p].op = "json"
    /\ pc[p] = "done"
    /\ pc' = [pc EXCEPT ![p] = "decoded"]
    /\ ret' = [ret EXCEPT ![p] = [err |-> "nil", doc |-> ret[p].doc,
                                  desc |-> decode(ret[p].doc)]]
    /\ UNCHANGED <<fs, now, mu, groups, call, loc, ncalls, stale, deleted,
                   atLock>>

CodecNext ==
    \/ \E p \in Procs : Marshal(p)
    \/ \E p \in Procs : Unmarshal(p)

CodecSpec == CodecInit /\ [][CodecNext]_vars

roundTripped(p) == pc[p] = "decoded" /\ call[p].op = "json"

\* what a document keeps of a Description: the fields that are written,
\* with a collection that is empty the same as one that is nil
persisted(d) ==
    [d EXCEPT !.FileName = <<>>, !.modTime = 0, !.fileSize = 0,
              !.isSubgroup = FALSE,
              !.Users = omitEmpty(@), !.FallbackUsers = omitEmpty(@),
              !.AuthKeys = omitEmpty(@), !.Op = omitEmpty(@),
              !.Presenter = omitEmpty(@), !.Other = omitEmpty(@)]

\* C18 as stated: decoding the encoding of a Description gives a
\* Description equal to it in every field.
C18_RoundTrip ==
    \A p \in Procs : roundTripped(p) => ret[p].desc = call[p].desc

\* C18: decoding the encoding of a Description gives it back in every
\* field that is written, the Permissions of every user included whether
\* it is a named role, an explicit list or absent, with an empty map or
\* list coming back as nil; FileName, modTime, fileSize and isSubgroup are
\* not written and come back zero.
C18_PersistedRoundTrip ==
    \A p \in Procs : roundTripped(p) => ret[p].desc = persisted(call[p].desc)

\* a Description that was never loaded, without a display name, whose
\* users have a named role, an explicit list and no permissions, came back
\* as it was
C18_Witness ==
    \E p \in Procs :
        /\ roundTripped(p)
        /\ call[p].desc.FileName = <<>> /\ call[p].desc.DisplayName = ""
        /\ call[p].desc.Users # Nil
        /\ DOMAIN call[p].desc.Users.v = {"jch", "ann", "peter"}
        /\ call[p].desc.Users.v["jch"].Permissions.name = "op"
        /\ call[p].desc.Users.v["ann"].Permissions.permissions # Nil
        /\ call[p].desc.Users.v["peter"].Permissions = noPermissions
        /\ ret[p].doc.Users.v["peter"].permissions.kind = "null"
        /\ ret[p].desc = call[p].desc

\* ------------------------------------------- updates through the API
\* the step is a call of UpdateDescription by p that has returned
updated(p) ==
    /\ call'[p].op = "UpdateDescription" /\ pc'[p] = "done"
    /\ <<pc[p], call[p], ret[p]>>' # <<pc[p], call[p], ret[p]>>

\* C19: with one call at a time and no storage fault, UpdateDescription
\* fails only with TagMismatch or because the Description is not
\* sanitised, and with a valid name, a sanitised Description and the tag
\* that GetDescriptionTag reports for the name ("" when it reports that
\* there is no file) it succeeds and leaves a file at the name's own path.
C19_UpdateSucceeds ==
    [][\A p \in Procs : updated(p) =>
        /\ ret'[p].err \in {"nil", "TagMismatch", "NotSanitised"}
        /\ ( /\ validGroupName(call'[p].name)
             /\ sanitised(call'[p].desc)
             /\ call'[p].etag = apiTag(fs, call'[p].name) )
            => /\ ret'[p].err = "nil"
               /\ fs'[jsonPath(call'[p].name)].exists]_vars

\* ------------------------------------- migration and subgroup resolution
\* the step is a call of GetDescription by p that has returned
got(p) ==
    /\ call'[p].op = "GetDescription" /\ pc'[p] = "done"
    /\ <<pc[p], call[p], ret[p]>>' # <<pc[p], call[p], ret[p]>>

\* the name has no file of its own and its parent has one
resolvesToParent(f, name) ==
    /\ Len(name) > 1
    /\ ~f[jsonPath(name)].exists
    /\ f[jsonPath(parent(name))].exists

\* r is a Description with AutoSubgroups set
autoSubgroups(r) == r.err = "nil" /\ r.desc.AutoSubgroups

\* C20: a request for a subgroup that resolves to the file of its parent
\* is permitted exactly when the Description that GetDescription returns
\* for the parent has AutoSubgroups set, and the Description it gets is
\* the upgraded one of that file, so a parent file that sets only the
\* obsolete allow-subgroups flag permits subgroups.
C20_MigrationBeforeSubgroupCheck ==
    [][\A p \in Procs :
        (got(p) /\ validGroupName(call'[p].name)
                /\ resolvesToParent(fs, call'[p].name)) =>
            /\ ret'[p].err = "nil" <=>
                    autoSubgroups(GetDescription(fs, groups,
                                                 parent(call'[p].name)))
            /\ ret'[p].err = "nil" =>
                    /\ ret'[p].desc.isSubgroup
                    /\ ret'[p].desc.AutoSubgroups
                    /\ ~ret'[p].desc.AllowSubgroups
                    /\ ret'[p].desc.Op = Nil]_vars

\* ------------------------------------------------------- name resolution
\* file systems with g.json, g/s.json and g/s/t.json present or not, with
\* and without auto-subgroups
ResolveFiles ==
    { [NoFiles EXCEPT ![<<"g">>] = a, ![<<"g", "s">>] = b,
                      ![<<"g", "s", "t">>] = c] :
        a \in {NoFile, File(AutoJSON, 0), File(RichJSON, 0),
               File(LegacyJSON, 0)},
        b \in {NoFile, File(AutoJSON, 0), File(SubJSON, 0)},
        c \in {NoFile, File(EmptyJSON, 0)} }

ResolveInit ==
    /\ fs \in ResolveFiles
    /\ now = 0
    /\ mu = "free"
    /\ groups = [n \in Names |-> Nil]
    /\ loc = [p \in Procs |-> NoLoc]
    /\ ncalls = 0
    /\ stale = [n \in Names |-> {}]
    /\ deleted = [n \in Names |-> FALSE]
    /\ atLock = [p \in Procs |-> NoFiles]
    /\ pc = [p \in Procs |-> "idle"]
    /\ call \in [Procs -> [op : {"readDescription"},
                            name : Names \cup DeepNames]]
    /\ ret = [p \in Procs |-> NoRet]

\* readDescription(name), with the files it probed
CallReadDescription(p) ==
    /\ call[p].op = "readDescription"
    /\ Apply(p, [accessed |-> probed(fs, call[p].name)]
                    @@ readDescription(fs, call[p].name))

ResolveNext == \E p \in Procs : CallReadDescription(p)

ResolveSpec == ResolveInit /\ [][ResolveNext]_vars

\* the prefixes of the name that have a file, and the longest of them
existing(f, n) == {m \in prefixes(n) : f[jsonPath(m)].exists}
nearest(f, n) ==
    CHOOSE m \in existing(f, n) : \A k \in existing(f, n) : Len(k) <= Len(m)

\* the file system with no file but the one of m
onlyFile(f, m) == [NoFiles EXCEPT ![jsonPath(m)] = f[jsonPath(m)]]

\* what readDescription returned to p, without the record of its probes
returned(p) == [k \in DOMAIN ret[p] \ {"accessed"} |-> ret[p][k]]

resolvedName(p) == pc[p] = "done" /\ call[p].op = "readDescription"

\* C21: resolution of a name stops at the longest prefix of the name that
\* has a file: without one the result is NotFound; with one the result is
\* what it would be if no other file existed, a Description comes from
\* that file, and when that file is an ancestor's and does not set
\* AutoSubgroups the result is NotFound, whatever a more distant ancestor
\* sets; the files probed are the prefixes down to that one, at most as
\* many as the name has segments.
C21_NearestPrefixDecides ==
    \A p \in Procs : resolvedName(p) =>
        LET n == call[p].name IN
        /\ Cardinality(ret[p].accessed) <= Len(n)
        /\ IF existing(fs, n) = {}
           THEN /\ ret[p].err = "NotExist"
                /\ ret[p].accessed = {jsonPath(m) : m \in prefixes(n)}
           ELSE /\ returned(p) = readDescription(onlyFile(fs, nearest(fs, n)), n)
                /\ ret[p].accessed =
                    {jsonPath(m) : m \in {k \in prefixes(n) :
                                            Len(k) >= Len(nearest(fs, n))}}
                /\ ret[p].err \in {"nil", "NotExist"}
                /\ ret[p].err = "nil" =>
                    /\ ret[p].desc.FileName = jsonPath(nearest(fs, n))
                    /\ ret[p].desc.isSubgroup <=> nearest(fs, n) # n
                /\ ( /\ nearest(fs, n) # n
                     /\ ~fs[jsonPath(nearest(fs, n))].doc.AutoSubgroups )
                    => ret[p].err = "NotExist"

\* g/s/t was resolved with no file of its own, a file of g/s without
\* auto-subgroups and a file of g with auto-subgroups, and was not found
C21_Witness ==
    \E p \in Procs :
        /\ resolvedName(p) /\ call[p].name = <<"g", "s", "t">>
        /\ ~fs[<<"g", "s", "t">>].exists
        /\ fs[<<"g", "s">>].exists /\ ~fs[<<"g", "s">>].doc.AutoSubgroups
        /\ fs[<<"g">>].exists /\ fs[<<"g">>].doc.AutoSubgroups
        /\ ret[p].err = "NotExist"
        /\ ret[p].accessed = {<<"g", "s", "t">>, <<"g", "s">>}

\* ------------------------------------------- the two augmentations
\* every role of permissionsMap, and every combination of the two flags
SweepRoles == <<"op", "present", "observe", "admin">>
SweepPolicies ==
    << [Description EXCEPT !.AllowRecording = FALSE,
                           !.UnrestrictedTokens = FALSE],
       [Description EXCEPT !.AllowRecording = TRUE,
                           !.UnrestrictedTokens = FALSE],
       [Description EXCEPT !.AllowRecording = FALSE,
                           !.UnrestrictedTokens = TRUE],
       [Description EXCEPT !.AllowRecording = TRUE,
                           !.UnrestrictedTokens = TRUE] >>

\* the k-th resolution of the sweep: every role under the first policy,
\* then under the second, and so on
sweepCall(k) ==
    [op |-> "Permissions",
     p |-> namedPermissions(SweepRoles[((k - 1) % Len(SweepRoles)) + 1]),
     desc |-> Some(SweepPolicies[((k - 1) \div Len(SweepRoles)) + 1])]

SweepInit ==
    /\ AtRest
    /\ pc = [p \in Procs |-> "idle"]
    /\ call = [p \in Procs |-> NoCall]
    /\ ret = [p \in Procs |-> NoRet]

\* p resolves the next role of its sweep
Sweep(p) ==
    /\ LET k == IF call[p] = NoCall THEN 1 ELSE call[p].k + 1 IN
        /\ k <= Len(SweepRoles) * Len(SweepPolicies)
        /\ call' = [call EXCEPT ![p] = [k |-> k] @@ sweepCall(k)]
        /\ ret' = [ret EXCEPT ![p] =
                    [err |-> "nil",
                     perms |-> Permissions(sweepCall(k).p, sweepCall(k).desc)]]
    /\ pc' = [pc EXCEPT ![p] = "done"]
    /\ UNCHANGED <<fs, now, mu, groups, loc, ncalls, stale, deleted, atLock>>

SweepNext == \E p \in Procs : Sweep(p)

\* every sweep runs to its end
SweepSpec ==
    SweepInit /\ [][SweepNext]_vars /\ \A p \in Procs : WF_vars(Sweep(p))

swept(p) == pc[p] = "done" /\ call[p].op = "Permissions"

\* the resolution of p has the capability c, which the role's base set
\* does not have
gained(p, c) ==
    /\ c \in asSet(ret[p].perms.v)
    /\ c \notin asSet(permissionsMap[call[p].p.name])

\* whether a resolution gains record depends on the role and on
\* AllowRecording only, whether it gains token on the role and on
\* UnrestrictedTokens only
independent ==
    \A p, q \in Procs :
        (swept(p) /\ swept(q) /\ call[p].p = call[q].p) =>
            /\ call[p].desc.v.AllowRecording = call[q].desc.v.AllowRecording
                => (gained(p, "record") <=> gained(q, "record"))
            /\ call[p].desc.v.UnrestrictedTokens
                    = call[q].desc.v.UnrestrictedTokens
                => (gained(p, "token") <=> gained(q, "token"))

\* C22 as stated: the two augmentations of a named role are independent,
\* and in a sweep over every role and every combination of the flags some
\* resolution gains both record and token.
C22_BothApplyToOneResolution ==
    /\ []independent
    /\ <>(\E p \in Procs : swept(p) /\ gained(p, "record")
                                    /\ gained(p, "token"))

\* C22: the two augmentations of a named role are independent; under a
\* Description with both flags set both take effect, record for op and
\* token for present, and no resolution gains both, since no role has op
\* without record together with present without token.
C22_IndependentAugmentations ==
    /\ independent
    /\ \A p \in Procs :
        swept(p) => ~(gained(p, "record") /\ gained(p, "token"))
    /\ \A p, q \in Procs :
        ( /\ swept(p) /\ swept(q) /\ call[p].desc = call[q].desc
          /\ call[p].desc.v.AllowRecording
          /\ call[p].desc.v.UnrestrictedTokens
          /\ call[p].p.name = "op" /\ call[q].p.name = "present" )
        => /\ gained(p, "record") /\ ~gained(p, "token")
           /\ gained(q, "token") /\ ~gained(q, "record")

\* under both flags op was resolved by one sweep and present by the other
C22_Witness ==
    \E p, q \in Procs :
        /\ swept(p) /\ swept(q) /\ call[p].desc = call[q].desc
        /\ call[p].desc.v.AllowRecording
        /\ call[p].desc.v.UnrestrictedTokens
        /\ call[p].p.name = "op" /\ call[q].p.name = "present"
        /\ asSet(ret[p].perms.v) = {"op", "present", "token", "record"}
        /\ asSet(ret[q].perms.v) = {"present", "token"}

\* ------------------------------------------- unsanitised Descriptions
\* the Description carries users, fallback users or keys, if only an
\* empty map or list of them
unsanitised(d) == d.Users # Nil \/ d.FallbackUsers # Nil \/ d.AuthKeys # Nil

\* the step is a call by p, of UpdateDescription with such a Description
invokedUnsanitised(p) ==
    /\ ncalls' = ncalls + 1
    /\ call'[p].op = "UpdateDescription" /\ unsanitised(call'[p].desc)
    /\ \A q \in Procs \ {p} :
        <<pc[q], call[q], ret[q]>>' = <<pc[q], call[q], ret[q]>>

\* C23: UpdateDescription with a Description whose Users, FallbackUsers
\* or AuthKeys is not nil returns an error in the step of the call,
\* whatever the tag and whoever holds groups.mu: it never waits for or
\* takes the lock, never reaches the read of the old description, and
\* changes no file.
C23_UnsanitisedRefused ==
    /\ [](\A p \in Procs :
            (isUpdate(p) /\ unsanitised(call[p].desc)) =>
                /\ pc[p] = "done" /\ ret[p].err = "NotSanitised"
                /\ mu # p)
    /\ [][\A p \in Procs : invokedUnsanitised(p) =>
            /\ pc'[p] = "done" /\ ret'[p].err = "NotSanitised"
            /\ fs' = fs /\ mu' = mu]_vars

\* an update with an empty users map and the tag of a file was refused
\* while another update held the lock, its temporary file written
C23_Witness ==
    \E p, q \in Procs :
        /\ isUpdate(p) /\ pc[p] = "done"
        /\ call[p].desc.Users = Some(<<>>) /\ call[p].etag # NoTag
        /\ ret[p].err = "NotSanitised"
        /\ isUpdate(q) /\ pc[q] = "rename" /\ mu = q

\* ------------------------------------------------------------- progress
\* a step of the call of p between groups.mu.Lock() and its return
Step(p) ==
    \/ UpdateCheck(p) \/ CreateTemp(p) \/ WriteTemp(p) \/ Rename(p)
    \/ Delete(p)

\* the calls that take groups.mu, on a store with no file or with g.json
MutationInit ==
    /\ Init
    /\ fs \in {NoFiles, [NoFiles EXCEPT ![<<"g">>] = File(AutoJSON, 0)]}
    /\ groups = [n \in Names |-> Nil]

\* UpdateDescription with a sanitised Description, DeleteDescription, and
\* the steps of both
MutationNext ==
    \/ \E p \in Procs :
        InvokeUpdateFrom(p, Names, KnownTags,
                         {[Description EXCEPT !.DisplayName = "abcde"]})
    \/ \E p \in Procs : InvokeDeleteFrom(p, Names, KnownTags)
    \/ \E p \in Procs : Lock(p)
    \/ \E p \in Procs : Step(p)

\* a call that is running takes its next step, and a call that waits for
\* groups.mu gets it if it is free again and again (sync.Mutex hands the
\* lock to a waiter that has waited long)
FairSpec ==
    /\ MutationInit /\ [][MutationNext]_vars
    /\ \A p \in Procs : WF_vars(Step(p)) /\ SF_vars(Lock(p))

\* the call of p is an UpdateDescription or DeleteDescription that has
\* not returned
pending(p) == pc[p] = "lock" \/ mutating(p)

\* C24: a call of UpdateDescription or DeleteDescription that has
\* returned, with whatever result, does not hold groups.mu; the lock is
\* only ever taken when it is free; and every call that waits for the
\* lock or holds it eventually returns.
C24_MutationsReturn ==
    /\ [](\A p \in Procs : pc[p] \in {"idle", "done", "lock"} => mu # p)
    /\ [][\A p \in Procs : (mu' = p /\ mu # p) => mu = "free"]_vars
    /\ \A p \in Procs : pending(p) ~> pc[p] = "done"

\* an update failed on its temporary file and the other call, a delete
\* that fails on a stale tag, has the lock after it
C24_Witness ==
    \E p, q \in Procs :
        /\ isUpdate(p) /\ pc[p] = "done" /\ ret[p].err = "IO"
        /\ call[q].op = "DeleteDescription" /\ pc[q] = "delete" /\ mu = q
        /\ deleteCheck(fs, call[q].name, call[q].etag).err = "TagMismatch"

\* ------------------------------------------------- the frame of an update
\* the file <Directory>/name.json as the file system resolves it: the
\* directory part is cleaned, the last segment names the file
ownPath(name) ==
    IF name = <<>> THEN <<>>
    ELSE IF name[Len(name)] = "" /\ Clean(Dir(name)) = <<>> THEN <<>>
    ELSE Clean(Dir(name)) \o <<name[Len(name)]>>

\* C25: a call of UpdateDescription leaves every file as it was except
\* the one at <Directory>/name.json, whatever the name, the tag and the
\* files; for a name that resolves to an ancestor with AutoSubgroups the
\* ancestor's file is left as it was.
C25_UpdateFrame ==
    [][\A p \in Procs : updated(p) =>
        \A path \in Paths \ {ownPath(call'[p].name)} :
            fs'[path] = fs[path]]_vars

\* ---------------------------------------------------- the tags of reads
\* a read of a group, of its users or of one of its users
TagCalls ==
    [op : {"GetSanitisedDescription", "GetUsers", "GetSanitisedUser"},
     name : Names, username : {"jch", "john"}]

\* any store of Init, at rest; the reads are drawn here
TagInit ==
    /\ fs \in InitFiles
    /\ now = 0
    /\ mu = "free"
    /\ groups \in {[n \in Names |-> Nil], loaded(fs)}
    /\ pc = [p \in Procs |-> "idle"]
    /\ call \in [Procs -> TagCalls]
    /\ loc = [p \in Procs |-> NoLoc]
    /\ ret = [p \in Procs |-> NoRet]
    /\ ncalls = 0
    /\ stale = [n \in Names |-> {}]
    /\ deleted = [n \in Names |-> FALSE]
    /\ atLock = [p \in Procs |-> NoFiles]

\* what the read returns
readWithTag(f, g, c) ==
    CASE c.op = "GetSanitisedDescription" ->
            GetSanitisedDescription(f, g, c.name)
      [] c.op = "GetUsers" -> GetUsers(f, g, c.name)
      [] c.op = "GetSanitisedUser" ->
            GetSanitisedUser(f, g, c.name, c.username)

\* the read is made and returns
ReadWithTag(p) ==
    /\ call[p].op \in {"GetSanitisedDescription", "GetUsers",
                       "GetSanitisedUser"}
    /\ Apply(p, readWithTag(fs, groups, call[p]))

\* the tag of the read is compared with GetDescriptionTag(name) and given
\* to the tag comparisons of UpdateDescription and DeleteDescription
UseTag(p) ==
    /\ pc[p] = "done" /\ ret[p].err = "nil"
    /\ pc' = [pc EXCEPT ![p] = "used"]
    /\ ret' = [ret EXCEPT ![p] =
            [err |-> "nil", etag |-> ret[p].etag,
             tag |-> GetDescriptionTag(fs, call[p].name),
             update |-> updateCheck(fs, call[p].name, ret[p].etag,
                                    Description).err,
             delete |-> deleteCheck(fs, call[p].name, ret[p].etag).err]]
    /\ UNCHANGED <<fs, now, mu, groups, call, loc, ncalls, stale, deleted,
                   atLock>>

TagNext ==
    \/ \E p \in Procs : ReadWithTag(p)
    \/ \E p \in Procs : UseTag(p)

TagSpec == TagInit /\ [][TagNext]_vars

\* C26: with no mutation in between, the tag that GetSanitisedDescription,
\* GetUsers or GetSanitisedUser returns for a name is the tag that
\* GetDescriptionTag returns for it, passes the tag comparison of
\* UpdateDescription and of DeleteDescription for that name, and is the
\* tag of the file at the name's own path.
C26_ReadTagIsCurrent ==
    \A p \in Procs : pc[p] = "used" =>
        /\ ret[p].tag.err = "nil" /\ ret[p].tag.etag = ret[p].etag
        /\ ret[p].update = "nil" /\ ret[p].delete = "nil"
        /\ fs[jsonPath(call[p].name)].exists
        /\ ret[p].etag = makeETag(fs[jsonPath(call[p].name)].size,
                                  fs[jsonPath(call[p].name)].mtime)

\* ------------------------------------------------ reads during updates
\* the step is the return of readDescription to p with a Description
parsed(p) == pc[p] = "parse" /\ pc'[p] = "done" /\ ret'[p].err = "nil"

\* the fields of a Description that are not changed by the upgrade, by
\* the sanitising or for a subgroup
plain(d) == <<d.DisplayName, d.AutoSubgroups \/ d.AllowSubgroups>>

\* C27: the size and the modification time in a Description that
\* readDescription returns are those of the file whose contents it
\* parsed, the file that had the name when it was opened, also when an
\* update has renamed another file to that name since; the tag that
\* GetSanitisedDescription makes of them is the tag of that file.
C27_TagOfParsedVersion ==
    [][\A p \in Procs : parsed(p) =>
        /\ ret'[p].desc.fileSize = jsonSize(loc[p].file.doc)
        /\ ret'[p].desc.fileSize = loc[p].file.size
        /\ ret'[p].desc.modTime = loc[p].file.mtime
        /\ plain(ret'[p].desc) = plain(decode(loc[p].file.doc))
        /\ call[p].op = "GetSanitisedDescription" =>
            ret'[p].etag = makeETag(loc[p].file.size, loc[p].file.mtime)]_vars

\* p has opened the file of a name and has yet to parse it, and an
\* UpdateDescription of q has since renamed a file of another size and
\* another time to that name
C27_Witness ==
    \E p, q \in Procs :
        /\ pc[p] = "parse" /\ ~loc[p].isParent
        /\ loc[p].file.complete
        /\ isUpdate(q) /\ pc[q] = "done" /\ ret[q].err = "nil"
        /\ jsonPath(call[q].name) = loc[p].fileName
        /\ fs[loc[p].fileName].exists
        /\ fs[loc[p].fileName].size # loc[p].file.size
        /\ fs[loc[p].fileName].mtime # loc[p].file.mtime
        /\ fs[loc[p].fileName].doc.DisplayName # loc[p].file.doc.DisplayName

====
